---------------------------- MODULE Spec2Model ----------------------------
(***************************************************************************)
(* A model of the credit-facility engine: the Facility core (balances,     *)
(* status, schedule cursor), the payment waterfall, and the four variant   *)
(* facades (term loan, open-term loan, revolving facility, overdraft).     *)
(*                                                                         *)
(* Money is an integer number of major units (Major is Money::from_major   *)
(* of 1), and every Money result is rounded half-away-from-zero to a whole *)
(* unit (the source rounds to 8 fractional digits).                        *)
(* Time is an integer number of ticks, TicksPerDay ticks to a day; `now`   *)
(* is the reading of the injected time source.  The calendar is scaled: a  *)
(* month has DaysPerMonth days and a year twelve such months, so that a    *)
(* month of daily accrual is a month of interest, as in the source.        *)
(***************************************************************************)
EXTENDS Integers, Sequences, FiniteSets, TLC

(***************************************************************************)
(* Bounds of the model.                                                    *)
(***************************************************************************)
\* the injected clock is advanced up to this many ticks
MaxTime == 3
\* the caller makes up to this many calls on the facility
MaxCalls == 5
\* operations that add to a balance are explored while that balance is below this cap
MaxAccrued == 40
\* draws and disbursements are explored while total_disbursed is at most this cap
MaxDisbursed == 1600
\* negative disbursements are explored while outstanding_principal is at least -MaxRefund
MaxRefund == 100
\* process_scheduled_payment is explored while the schedule cursor is below this cap
MaxPaymentNumber == 3
\* account transactions are explored while the linked balance is at most this cap
MaxBalance == 400

(***************************************************************************)
(* Scaled-down configuration (the builders' inputs and the presets of      *)
(* config.rs).                                                             *)
(***************************************************************************)
\* Money::from_major(1)
Major == 1
\* the ticks of the clock in chrono::Duration::days(1)
TicksPerDay == 1
\* commitment_amount / credit_limit / overdraft_limit
CommitmentAmount == 1000
\* interest_rate as the fraction RateNum / RateDen (12% a year)
RateNum == 3
RateDen == 25
\* term_months of the term loan
TermMonths == 2
\* add_months: the length of a month, in the model's days
DaysPerMonth == 1
\* grace_period_days of the term loan (10 in the preset), in the model's days
GracePeriodDays == 1
\* late_fee of the term loan
LateFee == 35
\* late_fee and grace_period_days of the credit card
CreditCardLateFee == 39
CreditCardGracePeriodDays == 5
\* overlimit_fee of the revolving facility
OverlimitFee == 35
\* minimum_drawdown of the revolving facility
MinimumDrawdown == 20
\* penalty_multiplier of PenaltyConfig::new(rate, 2.0)
PenaltyMultiplier == 2
\* buffer_zone of the overdraft
BufferZone == 50
\* bitcoin-backed loan: LTV thresholds in percent
WarningLtv == 60
MarginCallLtv == 65
LiquidationLtv == 75
\* margin_call_days: 3 days in the preset, one day of the model's short calendar,
\* so that a deadline can pass before MaxTime
MarginCallDays == 1
\* bitcoin collateral units and the initial price per unit
BtcAmount == 2
InitialBtcPrice == 1000

\* twap_window of BitcoinCollateral::new: 15 minutes, two ticks of the feed's clock
TwapWindow == 2
\* the prints MockPriceFeed::set_price keeps
HistoryLimit == 100
\* the cap on the months calculate_term_for_emi iterates over: 360 in the code, 36
\* at the scale of the model's terms
TermCap == 36
\* grace_period_hours of LiquidationEngine::new: one day
GracePeriodHours == 24
\* liquidation_cost_rate of LiquidationEngine::new, and the market discount of
\* execute_market_liquidation: 5 percent each
LiquidationCostPct == 5
MarketDiscountPct == 5

\* Option::None of an optional date or amount
None == -1
\* a reading of the host's wall clock (Utc::now()), unrelated to the injected time
HostClock == -2
\* year_basis of the Actual/365 day-count convention: the days of the model's year
YearBasis == 12 * DaysPerMonth
\* origination_fee of the personal loan: 3 percent of the amount
OriginationFeePct == 3

Kinds == {"term", "open_term", "revolving", "overdraft"}

(***************************************************************************)
(* Decimal helpers.                                                        *)
(***************************************************************************)
Min(a, b) == IF a <= b THEN a ELSE b
Max(a, b) == IF a >= b THEN a ELSE b

\* Money::from_decimal of the rational n / d (d > 0): round half away from zero
RoundDiv(n, d) ==
    IF n >= 0 THEN (2 * n + d) \div (2 * d)
    ELSE 0 - ((2 * (0 - n) + d) \div (2 * d))

\* chrono Duration::num_days: whole days, truncated toward zero
NumDays(ticks) ==
    IF ticks >= 0 THEN ticks \div TicksPerDay ELSE 0 - ((0 - ticks) \div TicksPerDay)

RECURSIVE Pow(_, _)
Pow(b, n) == IF n = 0 THEN 1 ELSE b * Pow(b, n - 1)


RECURSIVE Gcd(_, _)
Gcd(a, b) == IF b = 0 THEN a ELSE Gcd(b, a % b)

(***************************************************************************)
(* FacilityStatus and FacilityState.                                       *)
(***************************************************************************)
FacilityStatus ==
    {"Originated", "Active", "GracePeriod", "Delinquent", "Default",
     "Liquidating", "Liquidated", "Settled", "ChargedOff"}

\* FacilityState::new followed by the origination fee of Facility::originate
NewState(commitment, origination_date, origination_fee) ==
    [ status                |-> "Originated",
      original_commitment   |-> commitment,
      outstanding_principal |-> 0,
      accrued_interest      |-> 0,
      accrued_fees          |-> origination_fee,
      accrued_penalties     |-> 0,
      total_disbursed       |-> 0,
      available_commitment  |-> commitment,
      last_payment_date     |-> None,
      next_payment_due      |-> None,
      minimum_payment_due   |-> None,
      last_interest_accrual |-> origination_date,
      activation_date       |-> None,
      days_past_due         |-> 0,
      collateral            |-> None ]

total_outstanding(s) ==
    s.outstanding_principal + s.accrued_interest + s.accrued_fees + s.accrued_penalties

is_performing(s) == s.status \in {"Active", "Originated", "GracePeriod"}

can_accept_payment(s) == s.status \notin {"Settled", "ChargedOff", "Liquidated"}

can_disburse(s) == is_performing(s) /\ s.available_commitment > 0

update_status(s, new_status) == [s EXCEPT !.status = new_status]

record_payment(s, amount, timestamp) ==
    [s EXCEPT !.last_payment_date = timestamp,
              !.days_past_due =
                  IF s.minimum_payment_due # None /\ amount >= s.minimum_payment_due
                  THEN 0 ELSE @]

record_disbursement(s, amount) ==
    [s EXCEPT !.total_disbursed = @ + amount,
              !.outstanding_principal = @ + amount,
              !.available_commitment = Max(@ - amount, 0),
              !.activation_date = IF @ = None THEN HostClock ELSE @,
              !.status = IF s.activation_date = None THEN "Active" ELSE @]

(***************************************************************************)
(* The result of an operation: whether it returned Ok, the state it left   *)
(* and the events it appended to the log.                                  *)
(***************************************************************************)
Ok(s, ev) == [ok |-> TRUE, state |-> s, events |-> ev]
Err(s, ev) == [ok |-> FALSE, state |-> s, events |-> ev]

\* Facility::disburse
disburse(s, amount) ==
    IF ~can_disburse(s) THEN Err(s, <<>>)
    ELSE IF amount > s.available_commitment THEN Err(s, <<>>)
    ELSE LET s1 == record_disbursement(s, amount)
         IN  Ok(s1, IF s1.total_disbursed = amount
                    THEN <<"FacilityActivated">> ELSE <<"FundsDrawn">>)

(***************************************************************************)
(* Interest accrual.                                                       *)
(***************************************************************************)
calculate_days(start, end) == NumDays(end - start)

\* one day's interest: Money::from_decimal(principal * rate / year_basis)
DailyInterest(principal) == RoundDiv(principal * RateNum, RateDen * YearBasis)

\* AccrualEngine::accrue_daily: the interest amounts of the days accrued
accrue_daily(principal, last_accrual, t) ==
    [i \in 1 .. calculate_days(last_accrual, t) |-> DailyInterest(principal)]

RECURSIVE SumSeq(_)
SumSeq(q) == IF q = <<>> THEN 0 ELSE Head(q) + SumSeq(Tail(q))

\* Facility::accrue_interest
accrue_interest(s, t) ==
    IF s.outstanding_principal = 0 THEN Ok(s, <<>>)
    ELSE LET accruals == accrue_daily(s.outstanding_principal, s.last_interest_accrual, t)
         IN  Ok([s EXCEPT !.accrued_interest = @ + SumSeq(accruals),
                          !.last_interest_accrual = t],
                [i \in 1 .. Len(accruals) |-> "InterestAccrued"])

(***************************************************************************)
(* The payment waterfall.                                                  *)
(***************************************************************************)
PaymentComponent == <<"Fees", "Penalties", "Interest", "Principal">>

\* PaymentWaterfall::interest_first: interest -> fees -> penalties -> principal
interest_first ==
    [fees_priority |-> 2, penalties_priority |-> 3, interest_priority |-> 1,
     principal_priority |-> 4, allow_overpayment |-> TRUE]

\* PaymentWaterfall::standard: fees -> penalties -> interest -> principal
standard ==
    [fees_priority |-> 1, penalties_priority |-> 2, interest_priority |-> 3,
     principal_priority |-> 4, allow_overpayment |-> TRUE]

\* PaymentWaterfall::principal_only: the priorities of standard, allow_overpayment false
principal_only ==
    [fees_priority |-> 1, penalties_priority |-> 2, interest_priority |-> 3,
     principal_priority |-> 4, allow_overpayment |-> FALSE]

\* the priority a waterfall gives a component
PriorityOf(w, component) ==
    CASE component = "Fees" -> w.fees_priority
      [] component = "Penalties" -> w.penalties_priority
      [] component = "Interest" -> w.interest_priority
      [] component = "Principal" -> w.principal_priority

\* priorities.sort_by_key: the components in ascending priority (a stable sort)
RECURSIVE SortedFrom(_, _)
SortedFrom(w, p) ==
    IF p > 6 THEN <<>>
    ELSE SelectSeq(PaymentComponent, LAMBDA c : PriorityOf(w, c) = p) \o SortedFrom(w, p + 1)

\* the balance of the context that a component pays, and its applied field
BalanceField(component) ==
    CASE component = "Fees" -> "accrued_fees"
      [] component = "Penalties" -> "accrued_penalties"
      [] component = "Interest" -> "accrued_interest"
      [] component = "Principal" -> "outstanding_principal"

AppliedField(component) ==
    CASE component = "Fees" -> "to_fees"
      [] component = "Penalties" -> "to_penalties"
      [] component = "Interest" -> "to_interest"
      [] component = "Principal" -> "to_principal"

\* PaymentContext built from the facility state
PaymentContext(s) ==
    [accrued_fees |-> s.accrued_fees,
     accrued_penalties |-> s.accrued_penalties,
     accrued_interest |-> s.accrued_interest,
     outstanding_principal |-> s.outstanding_principal,
     minimum_payment |-> s.minimum_payment_due]

context_total_outstanding(c) ==
    c.accrued_fees + c.accrued_penalties + c.accrued_interest + c.outstanding_principal

\* PaymentContext::validate_payment: TRUE when the payment is accepted
validate_payment(c, amount) ==
    /\ ~(amount = 0 \/ amount < 0)
    /\ ~(/\ c.minimum_payment # None
         /\ amount < c.minimum_payment
         /\ amount < context_total_outstanding(c))

NoApplication ==
    [amount |-> 0, to_fees |-> 0, to_penalties |-> 0, to_interest |-> 0,
     to_principal |-> 0, excess |-> 0]

\* apply_to_component without "available - payment": what was applied to one
\* component stays available to the next
apply_without_deduction(component, available, w) ==
    [remaining |-> available,
     context |-> [w.context EXCEPT ![BalanceField(component)] =
                     @ - Min(available, w.context[BalanceField(component)])],
     application |-> [w.application EXCEPT ![AppliedField(component)] =
                         Min(available, w.context[BalanceField(component)])]]

\* PaymentProcessor::apply_to_component
apply_to_component(component, available, w) ==
    LET balance == w.context[BalanceField(component)]
        payment == Min(available, balance)
    IN  [remaining |-> available - payment,
         context |-> [w.context EXCEPT ![BalanceField(component)] = balance - payment],
         application |-> [w.application EXCEPT ![AppliedField(component)] = payment]]

\* the loop of PaymentProcessor::process over the sorted components
RECURSIVE ApplyInOrder(_, _)
ApplyInOrder(order, w) ==
    IF order = <<>> THEN w
    ELSE LET w1 == apply_to_component(Head(order), w.remaining, w)
         IN  IF w1.remaining = 0 THEN w1 ELSE ApplyInOrder(Tail(order), w1)

\* PaymentProcessor::process, after the loop: the excess, the event, the result
PaymentResult(w) ==
    [ok |-> TRUE,
     context |-> w.context,
     application |->
         [w.application EXCEPT !.excess = IF w.remaining > 0 THEN w.remaining ELSE 0],
     events |-> <<"PaymentReceived">>]

\* PaymentProcessor::process
process(waterfall, c, amount) ==
    IF ~validate_payment(c, amount)
    THEN [ok |-> FALSE, context |-> c, application |-> NoApplication, events |-> <<>>]
    ELSE PaymentResult(ApplyInOrder(SortedFrom(waterfall, 1),
             [remaining |-> amount, context |-> c,
              application |-> [NoApplication EXCEPT !.amount = amount]]))

\* an operation that returned an error before it changed anything
Rejected(s) == [ok |-> FALSE, state |-> s, events |-> <<>>, application |-> NoApplication]

\* Facility::process_payment, the end: settle when nothing is outstanding
SettleIfPaid(s, r) ==
    IF total_outstanding(s) = 0
    THEN [ok |-> TRUE, state |-> update_status(s, "Settled"),
          events |-> r.events \o <<"FacilitySettled">>, application |-> r.application]
    ELSE [ok |-> TRUE, state |-> s, events |-> r.events, application |-> r.application]

\* Facility::process_payment, after the waterfall: copy the context back, record the payment
ApplyPaymentResult(s, r, amount, t) ==
    IF ~r.ok THEN Rejected(s)
    ELSE SettleIfPaid(
             record_payment(
                 [s EXCEPT !.accrued_fees = r.context.accrued_fees,
                           !.accrued_penalties = r.context.accrued_penalties,
                           !.accrued_interest = r.context.accrued_interest,
                           !.outstanding_principal = r.context.outstanding_principal],
                 amount, t),
             r)

\* Facility::process_payment
process_payment(s, amount, t) ==
    IF ~can_accept_payment(s) THEN Rejected(s)
    ELSE ApplyPaymentResult(s, process(standard, PaymentContext(s), amount), amount, t)

(***************************************************************************)
(* The configuration each builder hands to Facility::originate.            *)
(***************************************************************************)
\* FacilityConfig::personal_loan (term loan)
personal_loan ==
    [origination_fee |-> RoundDiv(CommitmentAmount * OriginationFeePct, 100),
     late_fee |-> LateFee, overlimit_fee |-> None, minimum_drawdown |-> None,
     grace_period_days |-> GracePeriodDays, penalty_config |-> TRUE,
     penalty_multiplier |-> [num |-> PenaltyMultiplier, den |-> 1],
     collateral_config |-> FALSE]

\* FacilityConfig::auto_loan (term loan secured by a vehicle, no balloon payment)
auto_loan ==
    [origination_fee |-> 500,
     late_fee |-> 25, overlimit_fee |-> None, minimum_drawdown |-> None,
     grace_period_days |-> GracePeriodDays, penalty_config |-> TRUE,
     penalty_multiplier |-> [num |-> 3, den |-> 2],
     collateral_config |-> TRUE,
     ltv_thresholds |-> [warning_ltv |-> 100, margin_call_ltv |-> 110,
                         liquidation_ltv |-> 120]]

\* FacilityConfig::bitcoin_backed_loan (open-term loan)
bitcoin_backed_loan ==
    [origination_fee |-> RoundDiv(CommitmentAmount, 100),
     late_fee |-> None, overlimit_fee |-> None, minimum_drawdown |-> None,
     grace_period_days |-> 0, penalty_config |-> FALSE,
     collateral_config |-> TRUE,
     ltv_thresholds |-> [warning_ltv |-> WarningLtv, margin_call_ltv |-> MarginCallLtv,
                         liquidation_ltv |-> LiquidationLtv]]

\* FacilityConfig::credit_card (revolving facility)
credit_card ==
    [origination_fee |-> 0,
     late_fee |-> CreditCardLateFee, overlimit_fee |-> OverlimitFee,
     minimum_drawdown |-> MinimumDrawdown,
     grace_period_days |-> CreditCardGracePeriodDays, penalty_config |-> TRUE,
     penalty_multiplier |-> [num |-> 3, den |-> 2],
     collateral_config |-> FALSE]

\* FacilityConfig::heloc (revolving facility with a draw period)
heloc ==
    [origination_fee |-> 500,
     late_fee |-> 35, overlimit_fee |-> None, minimum_drawdown |-> 500,
     grace_period_days |-> 15, penalty_config |-> TRUE,
     penalty_multiplier |-> [num |-> 3, den |-> 2],
     collateral_config |-> TRUE,
     ltv_thresholds |-> [warning_ltv |-> 80, margin_call_ltv |-> 85,
                         liquidation_ltv |-> 90]]

\* FacilityConfig::overdraft
overdraft ==
    [origination_fee |-> 0,
     late_fee |-> None, overlimit_fee |-> OverlimitFee, minimum_drawdown |-> None,
     grace_period_days |-> 0, penalty_config |-> FALSE,
     collateral_config |-> FALSE]

Config(k) ==
    CASE k = "term" -> personal_loan
      [] k = "auto_loan" -> auto_loan
      [] k = "open_term" -> bitcoin_backed_loan
      [] k = "revolving" -> credit_card
      [] k = "heloc" -> heloc
      [] k = "overdraft" -> overdraft

(***************************************************************************)
(* Penalty interest and the daily status update.                           *)
(***************************************************************************)
\* PenaltyEngine::calculate_penalty with PenaltyConfig::new(rate, multiplier) (no grace,
\* no minimum)
calculate_penalty(overdue_amount, days_overdue, multiplier) ==
    IF days_overdue <= 0 THEN 0
    ELSE Max(RoundDiv(overdue_amount * RateNum * multiplier.num * days_overdue,
                      RateDen * YearBasis * multiplier.den), 0)

\* Facility::apply_penalty_interest
apply_penalty_interest(s, cfg) ==
    IF s.days_past_due = 0 THEN Ok(s, <<>>)
    ELSE IF ~cfg.penalty_config THEN Err(s, <<>>)
    ELSE LET overdue_amount == IF s.minimum_payment_due = None THEN 0
                               ELSE s.minimum_payment_due
             penalty == calculate_penalty(overdue_amount, s.days_past_due,
                                          cfg.penalty_multiplier)
         IN  IF penalty > 0
             THEN Ok([s EXCEPT !.accrued_penalties = @ + penalty],
                     <<"PenaltyInterestApplied">>)
             ELSE Ok(s, <<>>)

\* the status update_daily_status derives from the days overdue
DelinquencyStatus(days_overdue, grace_period) ==
    IF days_overdue = 0 THEN "Active"
    ELSE IF days_overdue <= grace_period THEN "GracePeriod"
    ELSE "Delinquent"

\* the events of r after the events ev
AfterEvents(ev, r) == [r EXCEPT !.events = ev \o @]

\* update_daily_status: penalty interest once past the grace period
PenaltyPastGrace(s, ev, cfg) ==
    IF s.days_past_due > cfg.grace_period_days
    THEN AfterEvents(ev, apply_penalty_interest(s, cfg))
    ELSE Ok(s, ev)

\* update_daily_status: the status change, its events and the late fee
ApplyDelinquencyStatus(s, old_status, new_status, cfg) ==
    LET changed == new_status # old_status
        expired == changed /\ old_status = "GracePeriod" /\ new_status = "Delinquent"
    IN  PenaltyPastGrace(
            [s EXCEPT !.status = IF changed THEN new_status ELSE @,
                      !.accrued_fees = IF expired /\ cfg.late_fee # None
                                       THEN @ + cfg.late_fee ELSE @],
            (IF changed THEN <<"StatusChanged">> ELSE <<>>)
            \o (IF changed /\ new_status = "GracePeriod" /\ old_status = "Active"
                THEN <<"GracePeriodStarted">> ELSE <<>>)
            \o (IF expired THEN <<"GracePeriodExpired">> ELSE <<>>)
            \o (IF expired /\ cfg.late_fee # None THEN <<"LateFeeApplied">> ELSE <<>>),
            cfg)

\* update_daily_status: the days past due of an overdue payment
ApplyDaysOverdue(s, days_overdue, cfg) ==
    ApplyDelinquencyStatus([s EXCEPT !.days_past_due = days_overdue], s.status,
                           DelinquencyStatus(days_overdue, cfg.grace_period_days), cfg)

\* update_daily_status, first part: days past due, status, late fee, penalty
UpdateDelinquency(s, t, cfg) ==
    IF \/ s.next_payment_due = None
       \/ ~(t > s.next_payment_due)
       \/ (s.last_payment_date # None /\ s.last_payment_date >= s.next_payment_due)
    THEN Ok(s, <<>>)
    ELSE ApplyDaysOverdue(s, NumDays(t - s.next_payment_due), cfg)

\* update_daily_status, second part: interest accrues while principal is outstanding
AccrueDaily(d, t) ==
    IF ~d.ok THEN d
    ELSE IF d.state.outstanding_principal > 0
    THEN AfterEvents(d.events, accrue_interest(d.state, t))
    ELSE d

\* Facility::update_daily_status
update_daily_status(s, t, cfg) == AccrueDaily(UpdateDelinquency(s, t, cfg), t)

(***************************************************************************)
(* Collateral of the Facility core.                                        *)
(***************************************************************************)
\* ltv > threshold, for ltv = debt / value and a threshold in percent (value > 0)
LtvAbove(debt, value, pct) == debt * 100 > pct * value

\* Facility::check_ltv_breach
check_ltv_breach(s, thresholds) ==
    IF LtvAbove(s.outstanding_principal, s.collateral, thresholds.liquidation_ltv)
    THEN Err(update_status(s, "Liquidating"),
             <<"LtvCalculated", "LtvLiquidationBreached">>)
    ELSE Ok(s, <<"LtvCalculated">>
               \o (IF LtvAbove(s.outstanding_principal, s.collateral,
                               thresholds.margin_call_ltv)
                   THEN <<"MarginCallRequired">> ELSE <<>>)
               \o (IF LtvAbove(s.outstanding_principal, s.collateral,
                               thresholds.warning_ltv)
                   THEN <<"LtvWarningBreached">> ELSE <<>>))

\* Facility::update_collateral (the new position's current_value > 0)
update_collateral(s, value, cfg) ==
    IF cfg.collateral_config
    THEN AfterEvents(<<"CollateralValueUpdated">>,
                     check_ltv_breach([s EXCEPT !.collateral = value],
                                      cfg.ltv_thresholds))
    ELSE Ok([s EXCEPT !.collateral = value], <<"CollateralValueUpdated">>)

(***************************************************************************)
(* The amortization schedule of the term loan (equal installments).        *)
(***************************************************************************)
\* monthly_rate = annual_rate / 12, as a fraction in lowest terms
MonthlyNum == RateNum \div Gcd(RateNum, 12 * RateDen)
MonthlyDen == (12 * RateDen) \div Gcd(RateNum, 12 * RateDen)

\* calculate_emi_amount: P * r * (1 + r)^n / ((1 + r)^n - 1)
calculate_emi_amount(principal, months) ==
    IF months = 0 THEN principal
    ELSE RoundDiv(principal * MonthlyNum * Pow(MonthlyDen + MonthlyNum, months),
                  MonthlyDen * (Pow(MonthlyDen + MonthlyNum, months) - Pow(MonthlyDen, months)))

\* calculate_equal_installments: the ending balance of row i (row 0 is the principal)
RECURSIVE EndingBalance(_)
EndingBalance(i) ==
    IF i = 0 THEN CommitmentAmount
    ELSE LET balance == EndingBalance(i - 1)
             interest_portion == RoundDiv(balance * MonthlyNum, MonthlyDen)
             principal_portion == calculate_emi_amount(CommitmentAmount, TermMonths)
                                  - interest_portion
         IN  Max(balance - principal_portion, 0)

\* add_months(start_date, i), every month DaysPerMonth days long
add_months(date, months) == date + months * DaysPerMonth * TicksPerDay

\* row i of the schedule generated at approval, with the rounding adjustment of the last row
ScheduledPayment(i, origination_date) ==
    [payment_date |-> add_months(origination_date, i),
     payment_amount |->
         calculate_emi_amount(CommitmentAmount, TermMonths)
         + (IF i = TermMonths /\ EndingBalance(i) > 0 /\ EndingBalance(i) < Major
            THEN EndingBalance(i) ELSE 0)]

\* AmortizationSchedule::get_payment: whether row payment_number exists
get_payment(payment_number) == payment_number >= 1 /\ payment_number <= TermMonths

(***************************************************************************)
(* The state of the program.                                               *)
(***************************************************************************)
VARIABLES
    kind,         \* which facade wraps the facility
    now,          \* the injected time source's current reading
    state,        \* Facility.state
    facade,       \* the facade's own fields
    events,       \* the events the last operation appended to Facility.events
    op,           \* the last operation called
    result,       \* whether it returned Ok ("ok") or Err ("err")
    application,  \* the PaymentApplication the last payment returned, and the amount asked
    calls         \* how many calls the caller has made

vars == <<kind, now, state, facade, events, op, result, application, calls>>

\* a LiquidationResult before any liquidation was executed
NoLiquidationResult ==
    [gross_proceeds |-> 0, liquidation_costs |-> 0, net_proceeds |-> 0,
     cvl_before |-> 0, cvl_after |-> 0, deficiency |-> None, surplus |-> None]

\* the facades' own fields after build, and next to them those of the
\* LiquidationEngine, of a MockPriceFeed and of the BitcoinCollateral built on it
NewFacade ==
    [current_payment_number |-> 0,
     amortization_schedule |-> FALSE,
     credit_limit |-> CommitmentAmount,
     available_credit |-> CommitmentAmount,
     is_in_draw_period |-> TRUE,
     overdraft_limit |-> CommitmentAmount,
     linked_account_balance |-> 0,
     is_active |-> FALSE,
     overdraft_state |-> "Available",
     btc_price |-> InitialBtcPrice,
     margin_call_active |-> FALSE,
     margin_call_deadline |-> None,
     last_check |-> None,
     draw_period_ends |-> None,
     liquidation_status |-> "NotInitiated",
     grace_period_hours |-> GracePeriodHours,
     grace_period_end |-> None,
     liquidation_result |-> NoLiquidationResult,
     spot_price |-> InitialBtcPrice,
     price_history |-> <<>>,
     btc_amount |-> None,
     flash_crash_protection |-> TRUE,
     twap_window |-> TwapWindow,
     last_valuation |-> HostClock,
     loan_params |-> [remaining_months |-> TermMonths, emi_amount |-> 0],
     overpayment_result |->
         [strategy |-> "None", amount_applied |-> 0, old_principal |-> 0,
          new_principal |-> 0, old_emi |-> None, new_emi |-> None,
          old_term_months |-> None, new_term_months |-> None, savings |-> 0],
     events_observed |-> FALSE,
     pending_events |-> <<>>,
     taken_events |-> <<>>]

\* the builders' build_with_time: Facility::originate, then the facade's new
Init ==
    /\ kind \in Kinds
    /\ now = 0
    /\ state = NewState(CommitmentAmount, 0, Config(kind).origination_fee)
    /\ facade = NewFacade
    /\ events = <<"FacilityOriginated">>
    /\ op = "build"
    /\ result = "ok"
    /\ application = NoApplication
    /\ calls = 0

\* EventStore::emit of the events ev of a call: they are pushed to the buffer of
\* Facility.events, which the model keeps where the buffer is drained
emit(f, ev) ==
    IF f.events_observed THEN [f EXCEPT !.pending_events = @ \o ev] ELSE f

\* the effect of a call: the outcome r, the facade fields f, the payment application a
Return(name, r, f, a) ==
    /\ calls < MaxCalls
    /\ calls' = calls + 1
    /\ state' = r.state
    /\ facade' = emit(f, r.events)
    /\ events' = r.events
    /\ op' = name
    /\ result' = IF r.ok THEN "ok" ELSE "err"
    /\ application' = a
    /\ UNCHANGED <<kind, now>>

\* a call of a facade operation whose outcome carries the facade's fields
ReturnFacade(name, r, a) == Return(name, r, r.facade, a)

\* a call of a payment operation of the Facility core
ReturnPayment(name, r) == Return(name, r, facade, r.application)

\* a call of make_payment(amount): the application keeps the amount requested
ReturnMakePayment(r, amount) ==
    Return("make_payment", r, facade, [r.application EXCEPT !.amount = amount])

\* a call of a payment operation of a facade
ReturnFacadePayment(name, r) == Return(name, r, r.facade, r.application)

\* the test clock is advanced by one tick
AdvanceTime ==
    /\ now < MaxTime
    /\ now' = now + 1
    /\ op' = "advance"
    /\ result' = "ok"
    /\ events' = <<>>
    /\ application' = NoApplication
    /\ UNCHANGED <<kind, state, facade, calls>>

(***************************************************************************)
(* Inputs of the operations.                                               *)
(***************************************************************************)
\* payment amounts: invalid, below the minimum, a partial payment, the payoff
PaymentAmounts(s) == {0, 50, 600, total_outstanding(s)}

\* disbursement amounts of the term and open-term loans
DisburseAmounts == {-100, 400, 1000}

\* draw amounts of the revolving facility
DrawAmounts == {0, 10, 400, 500, 700}

\* signed amounts of the overdraft's account transactions
TransactionAmounts == {-1200, -600, -30, 400, 600}

\* bitcoin prices fed to the open-term loan
BtcPrices == {0, 600, 700}

\* values of the collateral positions handed to Facility::update_collateral
CollateralValues == {500}

\* the balances an explored disbursement leaves stay within the caps
WithinCaps(s, amount) ==
    /\ s.total_disbursed + amount <= MaxDisbursed
    /\ s.total_disbursed + amount >= 0 - MaxRefund
    /\ s.outstanding_principal + amount >= 0 - MaxRefund

(***************************************************************************)
(* Operations every facade passes to the Facility core.                    *)
(***************************************************************************)
\* Facility::update_daily_status (TermLoan / RevolvingFacility::update_daily_status,
\* or facility_mut() of the other facades)
UpdateDailyStatus ==
    /\ state.accrued_penalties < MaxAccrued
    /\ Return("update_daily_status", update_daily_status(state, now, Config(kind)),
              facade, NoApplication)

\* TermLoan::accrue_interest and RevolvingFacility::accrue_interest
AccrueInterest ==
    /\ kind \in {"term", "revolving"}
    /\ Return("accrue_interest", accrue_interest(state, now), facade, NoApplication)

(***************************************************************************)
(* The term loan.                                                          *)
(***************************************************************************)
\* TermLoan::originate (approve is its alias)
TermLoan_originate(s, f, t) ==
    LET first_payment == ScheduledPayment(1, 0)
        s1 == [update_status(s, "Active") EXCEPT !.activation_date = t]
        s2 == IF get_payment(1)
              THEN [s1 EXCEPT !.next_payment_due = first_payment.payment_date,
                              !.minimum_payment_due = first_payment.payment_amount]
              ELSE s1
    IN  [ok |-> TRUE, state |-> s2, events |-> <<>>,
         facade |-> [f EXCEPT !.amortization_schedule = TRUE]]

\* TermLoan::deny (the other facades' deny does the same to the facility)
deny(s) == Ok(update_status(s, "Settled"), <<"StatusChanged">>)

\* TermLoan::handle_maturity (no balloon payment is configured)
handle_maturity(s) ==
    IF total_outstanding(s) = 0
    THEN Ok(update_status(s, "Settled"), <<"FacilityMatured">>)
    ELSE Ok(s, <<>>)

\* an error of a facade operation: the state s and the facade fields f it leaves
Failed(s, ev, f) ==
    [ok |-> FALSE, state |-> s, events |-> ev, facade |-> f, application |-> NoApplication]

\* process_scheduled_payment_with_time: the result after handle_maturity
ScheduledResult(a, p, m, f) ==
    [ok |-> TRUE, state |-> m.state, events |-> a.events \o p.events \o m.events,
     facade |-> f, application |-> p.application]

\* process_scheduled_payment_with_time: maturity after the final payment
ScheduledMaturity(a, p, s, f) ==
    ScheduledResult(a, p,
                    IF f.current_payment_number >= TermMonths
                    THEN handle_maturity(s) ELSE Ok(s, <<>>),
                    f)

\* process_scheduled_payment_with_time: the next payment due after the payment
ScheduledNextDue(a, p, f) ==
    IF ~p.ok THEN Failed(a.state, a.events, f)
    ELSE ScheduledMaturity(a, p,
             IF get_payment(f.current_payment_number + 1)
             THEN [p.state EXCEPT
                      !.next_payment_due =
                          ScheduledPayment(f.current_payment_number + 1, 0).payment_date,
                      !.minimum_payment_due =
                          ScheduledPayment(f.current_payment_number + 1, 0).payment_amount]
             ELSE [p.state EXCEPT !.next_payment_due = None,
                                  !.minimum_payment_due = None],
             f)

\* process_scheduled_payment_with_time: the payment after the accrual
ScheduledPay(a, f, t) ==
    ScheduledNextDue(a,
        process_payment(a.state,
                        ScheduledPayment(f.current_payment_number, 0).payment_amount, t),
        f)

\* process_scheduled_payment_with_time: after the cursor has moved
ScheduledAccrue(s, f, t) ==
    IF ~get_payment(f.current_payment_number) THEN Failed(s, <<>>, f)
    ELSE ScheduledPay(accrue_interest(s, t), f, t)

\* TermLoan::process_scheduled_payment_with_time
process_scheduled_payment_with_time(s, f, t) ==
    IF ~f.amortization_schedule THEN Failed(s, <<>>, f)
    ELSE ScheduledAccrue(s, [f EXCEPT !.current_payment_number = @ + 1], t)

TermApprove ==
    /\ kind = "term"
    /\ ReturnFacade("approve", TermLoan_originate(state, facade, now), NoApplication)

TermDeny ==
    /\ kind = "term"
    /\ Return("deny", deny(state), facade, NoApplication)

TermDisburse ==
    /\ kind = "term"
    /\ \E amount \in DisburseAmounts :
          /\ WithinCaps(state, amount)
          /\ Return("disburse", disburse(state, amount), facade,
                    [NoApplication EXCEPT !.amount = amount])

TermMakePayment ==
    /\ kind = "term"
    /\ \E amount \in PaymentAmounts(state) :
          ReturnMakePayment(process_payment(state, amount, now), amount)

TermProcessScheduledPayment ==
    /\ kind = "term"
    /\ facade.current_payment_number < MaxPaymentNumber
    /\ ReturnFacadePayment("process_scheduled_payment",
                           process_scheduled_payment_with_time(state, facade, now))

TermNext ==
    \/ TermApprove
    \/ TermDeny
    \/ TermDisburse
    \/ TermMakePayment
    \/ TermProcessScheduledPayment

(***************************************************************************)
(* The open-term (bitcoin-backed) loan.                                    *)
(***************************************************************************)
\* the collateral value: Money::from_decimal(btc_amount * btc_price)
CollateralValue(f) == BtcAmount * f.btc_price

\* ltv <= pct percent, for OpenTermLoan::calculate_ltv (100 percent without collateral)
LtvAtMost(debt, value, pct) ==
    IF value = 0 THEN 100 <= pct ELSE debt * 100 <= pct * value

\* the LtvStatus check_ltv_status derives from the ltv
LtvStatus(debt, value) ==
    IF LtvAtMost(debt, value, WarningLtv) THEN "Healthy"
    ELSE IF LtvAtMost(debt, value, MarginCallLtv) THEN "Warning"
    ELSE IF LtvAtMost(debt, value, LiquidationLtv) THEN "MarginCall"
    ELSE "Liquidation"

\* OpenTermLoan::check_ltv_status: the match on the LtvStatus
ApplyLtvStatus(s, f, t, status) ==
    CASE status = "Healthy" ->
           IF f.margin_call_active
           THEN [ok |-> TRUE, state |-> s, events |-> <<"MarginCallResolved">>,
                 facade |-> [f EXCEPT !.margin_call_active = FALSE,
                                      !.margin_call_deadline = None]]
           ELSE [ok |-> TRUE, state |-> s, events |-> <<>>, facade |-> f]
      [] status = "Warning" ->
           [ok |-> TRUE, state |-> s, events |-> <<"LtvWarningBreached">>, facade |-> f]
      [] status = "MarginCall" ->
           IF ~f.margin_call_active
           THEN [ok |-> TRUE, state |-> s, events |-> <<"MarginCallRequired">>,
                 facade |-> [f EXCEPT !.margin_call_active = TRUE,
                                      !.margin_call_deadline =
                                          t + MarginCallDays * TicksPerDay]]
           ELSE [ok |-> TRUE, state |-> s, events |-> <<>>, facade |-> f]
      [] status = "Liquidation" ->
           [ok |-> TRUE, state |-> update_status(s, "Liquidating"),
            events |-> <<"LiquidationTriggered">>, facade |-> f]

\* OpenTermLoan::check_ltv_status on the ltv of calculate_ltv
check_ltv_status(s, f, t) ==
    ApplyLtvStatus(s, f, t, LtvStatus(total_outstanding(s), CollateralValue(f)))

\* OpenTermLoan::originate (approve is its alias)
OpenTermLoan_originate(s, t) ==
    Ok([update_status(s, "Active") EXCEPT !.activation_date = t], <<"FacilityOriginated">>)

\* OpenTermLoan::disburse: an open-term loan has no payment schedule
ClearSchedule(r) ==
    IF ~r.ok THEN r
    ELSE Ok([r.state EXCEPT !.next_payment_due = None, !.minimum_payment_due = None],
            r.events)

\* a disburse that gives the open-term loan a payment schedule, as a term loan has:
\* a first payment due one month after the origination
disburse_with_schedule(s, amount) ==
    IF ~disburse(s, amount).ok THEN disburse(s, amount)
    ELSE Ok([disburse(s, amount).state EXCEPT
                !.next_payment_due = DaysPerMonth * TicksPerDay,
                !.minimum_payment_due = 50],
            disburse(s, amount).events)

\* OpenTermLoan::disburse
OpenTermLoan_disburse(s, amount) == ClearSchedule(disburse(s, amount))

\* OpenTermLoan::update_btc_price_with_time
update_btc_price_with_time(s, f, new_price, t) ==
    [check_ltv_status(s, [f EXCEPT !.btc_price = new_price], t)
        EXCEPT !.events = @ \o <<"LtvCalculated">>]

\* OpenTermLoan::process_payment_with_time: the payment p, then the ltv check c
PaymentThenLtv(p, c) ==
    [ok |-> TRUE, state |-> c.state, events |-> p.events \o c.events,
     facade |-> c.facade, application |-> p.application]

\* OpenTermLoan::process_payment_with_time: the ltv is checked after an accepted payment
CheckLtvAfterPayment(s, f, p, t) ==
    IF ~p.ok THEN Failed(s, <<>>, f)
    ELSE PaymentThenLtv(p, check_ltv_status(p.state, f, t))

\* OpenTermLoan::process_payment_with_time (make_payment is its alias)
OpenTermLoan_process_payment_with_time(s, f, amount, t) ==
    CheckLtvAfterPayment(s, f, process_payment(s, amount, t), t)

\* OpenTermLoan::accrue_interest_with_time
OpenTermLoan_accrue_interest_with_time(s, t) ==
    [accrue_interest(s, t) EXCEPT !.events = @ \o <<"InterestAccrued">>]

\* OpenTermLoan::payoff_and_release_with_time: the release after the payoff p
ReleaseCollateral(s, p) ==
    IF ~p.ok THEN Rejected(s)
    ELSE [ok |-> TRUE, state |-> update_status(p.state, "Settled"),
          events |-> p.events \o <<"CollateralReleased">>,
          application |-> p.application]

\* OpenTermLoan::payoff_and_release_with_time
payoff_and_release_with_time(s, t) ==
    ReleaseCollateral(s, process_payment(s, total_outstanding(s), t))

OpenTermApprove ==
    /\ kind = "open_term"
    /\ Return("approve", OpenTermLoan_originate(state, now), facade, NoApplication)

OpenTermDeny ==
    /\ kind = "open_term"
    /\ Return("deny", deny(state), facade, NoApplication)

OpenTermDisburse ==
    /\ kind = "open_term"
    /\ \E amount \in DisburseAmounts :
          /\ WithinCaps(state, amount)
          /\ Return("disburse", OpenTermLoan_disburse(state, amount), facade,
                    [NoApplication EXCEPT !.amount = amount])

OpenTermMakePayment ==
    /\ kind = "open_term"
    /\ \E amount \in PaymentAmounts(state) :
          ReturnFacadePayment("make_payment",
              OpenTermLoan_process_payment_with_time(state, facade, amount, now))

OpenTermUpdateBtcPrice ==
    /\ kind = "open_term"
    /\ \E new_price \in BtcPrices :
          ReturnFacade("update_btc_price",
                       update_btc_price_with_time(state, facade, new_price, now),
                       NoApplication)

OpenTermAccrueInterest ==
    /\ kind = "open_term"
    /\ Return("accrue_interest", OpenTermLoan_accrue_interest_with_time(state, now),
              facade, NoApplication)

OpenTermPayoffAndRelease ==
    /\ kind = "open_term"
    /\ ReturnPayment("payoff_and_release", payoff_and_release_with_time(state, now))

\* Facility::update_collateral, reached through facility_mut()
OpenTermUpdateCollateral ==
    /\ kind = "open_term"
    /\ \E value \in CollateralValues :
          Return("update_collateral", update_collateral(state, value, Config(kind)),
                 facade, NoApplication)

OpenTermNext ==
    \/ OpenTermApprove
    \/ OpenTermDeny
    \/ OpenTermDisburse
    \/ OpenTermMakePayment
    \/ OpenTermUpdateBtcPrice
    \/ OpenTermAccrueInterest
    \/ OpenTermPayoffAndRelease
    \/ OpenTermUpdateCollateral

(***************************************************************************)
(* The revolving facility.                                                 *)
(***************************************************************************)
\* RevolvingFacility::activate_with_time (approve is its alias): a HELOC records the
\* end of its draw period, 60% of the term after the activation
activate_with_time(s, f, t, k) ==
    [ok |-> TRUE,
     state |-> update_status([s EXCEPT !.activation_date = t], "Active"),
     events |-> <<"FacilityActivated">>,
     facade |-> IF k = "heloc"
                THEN [f EXCEPT !.draw_period_ends =
                         t + ((TermMonths * 6) \div 10) * DaysPerMonth * TicksPerDay]
                ELSE f]

\* RevolvingFacility::end_draw_period
end_draw_period(s, f, t) ==
    [ok |-> TRUE, state |-> s, events |-> <<>>,
     facade |-> IF ~f.is_in_draw_period THEN f
                ELSE [f EXCEPT !.is_in_draw_period = FALSE, !.draw_period_ends = t]]

\* draw_with_time: the available credit after the draw
DrawResult(s, f, ev) ==
    [ok |-> TRUE, state |-> s, events |-> ev \o <<"FundsDrawn">>,
     facade |-> [f EXCEPT !.available_credit =
                     Max(f.credit_limit - s.outstanding_principal, 0)]]

\* RevolvingFacility::draw_with_time (disburse is its alias)
draw_with_time(s, f, amount, cfg) ==
    LET is_overlimit == amount > f.available_credit
        overlimit_amount == s.outstanding_principal + amount - f.credit_limit
        charged == is_overlimit /\ cfg.overlimit_fee # None
    IN  IF ~f.is_in_draw_period \/ amount <= 0
           \/ (cfg.minimum_drawdown # None /\ amount < cfg.minimum_drawdown)
           \/ (is_overlimit /\ overlimit_amount > RoundDiv(f.credit_limit, 10))
        THEN [ok |-> FALSE, state |-> s, events |-> <<>>, facade |-> f]
        ELSE DrawResult(
                 record_disbursement(
                     IF charged THEN [s EXCEPT !.accrued_fees = @ + cfg.overlimit_fee]
                     ELSE s,
                     amount),
                 f,
                 IF charged THEN <<"OverlimitOccurred">> ELSE <<>>)

\* process_payment_with_time: the principal paid restores the available credit
RestoreCredit(s, f, p) ==
    IF ~p.ok THEN Failed(s, <<>>, f)
    ELSE [ok |-> TRUE, state |-> p.state, events |-> p.events,
          facade |-> [f EXCEPT !.available_credit =
                          Min(f.available_credit
                              + (s.outstanding_principal - p.state.outstanding_principal),
                              f.credit_limit)],
          application |-> p.application]

\* RevolvingFacility::process_payment_with_time (make_payment is its alias)
RevolvingFacility_process_payment_with_time(s, f, amount, t) ==
    RestoreCredit(s, f, process_payment(s, amount, t))

RevolvingApprove ==
    /\ kind \in {"revolving", "heloc"}
    /\ ReturnFacade("approve", activate_with_time(state, facade, now, kind),
                    NoApplication)

RevolvingEndDrawPeriod ==
    /\ kind \in {"revolving", "heloc"}
    /\ ReturnFacade("end_draw_period", end_draw_period(state, facade, now),
                    NoApplication)

RevolvingDeny ==
    /\ kind \in {"revolving", "heloc"}
    /\ Return("deny", deny(state), facade, NoApplication)

RevolvingDraw ==
    /\ kind \in {"revolving", "heloc"}
    /\ \E amount \in DrawAmounts :
          /\ WithinCaps(state, amount)
          /\ ReturnFacade("draw", draw_with_time(state, facade, amount, Config(kind)),
                          [NoApplication EXCEPT !.amount = amount])

RevolvingMakePayment ==
    /\ kind \in {"revolving", "heloc"}
    /\ \E amount \in PaymentAmounts(state) :
          ReturnFacadePayment("make_payment",
              RevolvingFacility_process_payment_with_time(state, facade, amount, now))

RevolvingNext ==
    \/ RevolvingApprove
    \/ RevolvingDeny
    \/ RevolvingDraw
    \/ RevolvingMakePayment

\* a HELOC: the revolving operations and the end of the draw period
HelocInit ==
    /\ kind = "heloc"
    /\ now = 0
    /\ state = NewState(CommitmentAmount, 0, Config(kind).origination_fee)
    /\ facade = NewFacade
    /\ events = <<"FacilityOriginated">>
    /\ op = "build"
    /\ result = "ok"
    /\ application = NoApplication
    /\ calls = 0

HelocSpec == HelocInit /\ [][AdvanceTime \/ RevolvingNext \/ RevolvingEndDrawPeriod]_vars

(***************************************************************************)
(* The overdraft facility.                                                 *)
(***************************************************************************)
\* the OverdraftState of an overdrawn amount
OverdraftState(amount, f) ==
    IF amount <= BufferZone THEN "BufferZone"
    ELSE IF amount <= f.overdraft_limit THEN "Active"
    ELSE "Exceeded"

\* OverdraftFacility::activate_overdraft
activate_overdraft(s, f, amount) ==
    [ok |-> TRUE,
     state |-> update_status([s EXCEPT !.outstanding_principal = amount], "Active"),
     facade |-> [f EXCEPT !.is_active = TRUE,
                          !.overdraft_state = OverdraftState(amount, f)],
     events |-> <<"OverdraftActivated">>
                \o (IF amount > BufferZone THEN <<"BufferZoneBreached">> ELSE <<>>)]

\* clear_overdraft that forgets to zero the outstanding principal
clear_keeping_principal(s, f) ==
    [ok |-> TRUE,
     state |-> s,
     facade |-> [f EXCEPT !.is_active = FALSE, !.overdraft_state = "Available"],
     events |-> <<"OverdraftCleared">>]

\* OverdraftFacility::clear_overdraft
clear_overdraft(s, f) ==
    [ok |-> TRUE,
     state |-> [s EXCEPT !.outstanding_principal = 0],
     facade |-> [f EXCEPT !.is_active = FALSE, !.overdraft_state = "Available"],
     events |-> <<"OverdraftCleared">>]

\* OverdraftFacility::update_overdraft_amount
update_overdraft_amount(s, f, new_amount, t) ==
    LET previous_amount == s.outstanding_principal
        s1 == [s EXCEPT !.outstanding_principal = new_amount]
    IN  [ok |-> TRUE,
         state |-> IF new_amount > previous_amount THEN s1
                   ELSE record_payment(s1, previous_amount - new_amount, t),
         facade |-> [f EXCEPT !.overdraft_state = OverdraftState(new_amount, f)],
         events |-> (IF new_amount > previous_amount
                     THEN <<"OverdraftIncreased">> ELSE <<>>)
                    \o (IF previous_amount <= BufferZone /\ new_amount > BufferZone
                        THEN <<"BufferZoneBreached">> ELSE <<>>)]

\* process_account_transaction_with_time testing the balance before the transaction
\* against the limit instead of the balance after it
transaction_testing_previous_balance(s, f, transaction_amount, t) ==
    LET previous_balance == f.linked_account_balance
        new_balance == previous_balance + transaction_amount
        f1 == [f EXCEPT !.linked_account_balance = new_balance]
    IN  IF previous_balance < 0 - f.overdraft_limit
        THEN [ok |-> FALSE, state |-> s, facade |-> f, events |-> <<>>]
        ELSE IF previous_balance >= 0 /\ new_balance < 0
        THEN activate_overdraft(s, f1, 0 - new_balance)
        ELSE IF previous_balance < 0 /\ new_balance >= 0
        THEN clear_overdraft(s, f1)
        ELSE IF new_balance < 0
        THEN update_overdraft_amount(s, f1, 0 - new_balance, t)
        ELSE [ok |-> TRUE, state |-> s, facade |-> f1, events |-> <<>>]

\* OverdraftFacility::process_account_transaction_with_time
process_account_transaction_with_time(s, f, transaction_amount, t) ==
    LET previous_balance == f.linked_account_balance
        new_balance == previous_balance + transaction_amount
        f1 == [f EXCEPT !.linked_account_balance = new_balance]
    IN  IF new_balance < 0 - f.overdraft_limit
        THEN [ok |-> FALSE, state |-> s, facade |-> f, events |-> <<>>]
        ELSE IF previous_balance >= 0 /\ new_balance < 0
        THEN activate_overdraft(s, f1, 0 - new_balance)
        ELSE IF previous_balance < 0 /\ new_balance >= 0
        THEN clear_overdraft(s, f1)
        ELSE IF new_balance < 0
        THEN update_overdraft_amount(s, f1, 0 - new_balance, t)
        ELSE [ok |-> TRUE, state |-> s, facade |-> f1, events |-> <<>>]

\* one day's continuously compounded interest: P * (r/365 + (r/365)^2 / 2),
\* 365 being the days of the year
OverdraftDailyInterest(principal) ==
    RoundDiv(principal * (2 * RateNum * RateDen * YearBasis + RateNum * RateNum),
             2 * RateDen * RateDen * YearBasis * YearBasis)

\* OverdraftFacility::accrue_interest_with_time
OverdraftFacility_accrue_interest_with_time(s, f) ==
    IF ~f.is_active \/ s.outstanding_principal = 0 THEN Ok(s, <<>>)
    ELSE Ok([s EXCEPT !.accrued_interest = @ + OverdraftDailyInterest(s.outstanding_principal)],
            <<"InterestAccrued">>)

\* OverdraftFacility::approve
OverdraftFacility_approve(s, t) ==
    Ok([update_status(s, "Active") EXCEPT !.activation_date = t], <<"FacilityActivated">>)

\* OverdraftFacility::deny
OverdraftFacility_deny(s, f) ==
    [ok |-> TRUE, state |-> update_status(s, "Settled"),
     facade |-> [f EXCEPT !.overdraft_state = "Suspended"],
     events |-> <<"StatusChanged">>]

OverdraftApprove ==
    /\ kind = "overdraft"
    /\ Return("approve", OverdraftFacility_approve(state, now), facade, NoApplication)

OverdraftDeny ==
    /\ kind = "overdraft"
    /\ ReturnFacade("deny", OverdraftFacility_deny(state, facade), NoApplication)

\* OverdraftFacility::process_account_transaction
OverdraftTransaction ==
    /\ kind = "overdraft"
    /\ \E amount \in TransactionAmounts :
          /\ facade.linked_account_balance + amount <= MaxBalance
          /\ ReturnFacade("account_transaction",
                 process_account_transaction_with_time(state, facade, amount, now),
                 [NoApplication EXCEPT !.amount = amount])

\* OverdraftFacility::make_payment: the account transaction of a deposit
OverdraftMakePayment ==
    /\ kind = "overdraft"
    /\ \E amount \in {a \in TransactionAmounts : a > 0} :
          /\ facade.linked_account_balance + amount <= MaxBalance
          /\ ReturnFacade("make_payment",
                 process_account_transaction_with_time(state, facade, amount, now),
                 [NoApplication EXCEPT !.amount = amount])

OverdraftAccrueInterest ==
    /\ kind = "overdraft"
    /\ state.accrued_interest < MaxAccrued
    /\ Return("accrue_interest", OverdraftFacility_accrue_interest_with_time(state, facade),
              facade, NoApplication)

OverdraftNext ==
    \/ OverdraftApprove
    \/ OverdraftDeny
    \/ OverdraftTransaction
    \/ OverdraftMakePayment
    \/ OverdraftAccrueInterest

\* an overdraft facility on its own
OverdraftInit ==
    /\ kind = "overdraft"
    /\ now = 0
    /\ state = NewState(CommitmentAmount, 0, Config(kind).origination_fee)
    /\ facade = NewFacade
    /\ events = <<"FacilityOriginated">>
    /\ op = "build"
    /\ result = "ok"
    /\ application = NoApplication
    /\ calls = 0

OverdraftSpec == OverdraftInit /\ [][AdvanceTime \/ OverdraftNext]_vars

Next ==
    \/ AdvanceTime
    \/ UpdateDailyStatus
    \/ AccrueInterest
    \/ TermNext
    \/ OpenTermNext
    \/ RevolvingNext
    \/ OverdraftNext

Spec == Init /\ [][Next]_vars

(***************************************************************************)
(* The payment waterfall on its own: PaymentProcessor::process applied to  *)
(* contexts whose four balances are amounts owed.                          *)
(***************************************************************************)
\* a facility whose balances are those of the context under test: nothing owed, or
\* the amounts of the unit tests
WaterfallInit ==
    /\ kind = "term"
    /\ now = 0
    /\ \E fees \in {0, 50}, penalties \in {0, 25}, interest \in {0, 100},
          principal \in {0, 1000}, minimum \in {None, 200} :
          state = [NewState(CommitmentAmount, 0, fees) EXCEPT
                      !.accrued_penalties = penalties,
                      !.accrued_interest = interest,
                      !.outstanding_principal = principal,
                      !.minimum_payment_due = minimum]
    /\ facade = NewFacade
    /\ events = <<>>
    /\ op = "build"
    /\ result = "ok"
    /\ application = NoApplication
    /\ calls = 0

\* the context after PaymentProcessor::process, as the balances of the facility
ReturnContext(r) ==
    /\ calls < MaxCalls
    /\ calls' = calls + 1
    /\ state' = [state EXCEPT !.accrued_fees = r.context.accrued_fees,
                              !.accrued_penalties = r.context.accrued_penalties,
                              !.accrued_interest = r.context.accrued_interest,
                              !.outstanding_principal = r.context.outstanding_principal]
    /\ events' = r.events
    /\ op' = "process"
    /\ result' = IF r.ok THEN "ok" ELSE "err"
    /\ application' = r.application
    /\ UNCHANGED <<kind, now, facade>>

\* PaymentProcessor::new(PaymentWaterfall::standard()).process(payment, context, ..)
WaterfallProcess ==
    \E amount \in {-10, 0, 30, 60, 150, 500, 1175, 2000} :
        ReturnContext(process(standard, PaymentContext(state), amount))

WaterfallSpec == WaterfallInit /\ [][WaterfallProcess]_vars

\* PaymentProcessor::new(PaymentWaterfall::principal_only()).process(payment, context, ..)
PrincipalOnlyProcess ==
    \E amount \in {-10, 0, 30, 60, 150, 500, 1175, 2000} :
        ReturnContext(process(principal_only, PaymentContext(state), amount))

PrincipalOnlySpec == WaterfallInit /\ [][PrincipalOnlyProcess]_vars

(***************************************************************************)
(* The claims.                                                             *)
(***************************************************************************)
\* the elements of a sequence
Range(seq) == {seq[i] : i \in DOMAIN seq}

\* the operations that reach Facility::process_payment
WaterfallPayments == {"make_payment", "process_scheduled_payment", "payoff_and_release"}

\* C1: an operation that returns an error leaves the facility state and the
\* facade's fields (schedule cursor, margin-call flag and deadline) as they were
\* before the call and appends no event.
C1_AtomicOnError ==
    [][result' = "err" => (state' = state /\ facade' = facade /\ events' = <<>>)]_vars

\* C2: once the status is Settled or ChargedOff, no later operation changes it.
C2_TerminalStatus ==
    [][state.status \in {"Settled", "ChargedOff"} => state'.status = state.status]_vars

\* C3: whenever the status is Settled, total_outstanding is zero.
C3_SettledMeansPaid == state.status = "Settled" => total_outstanding(state) = 0

\* C4: total_outstanding is the sum of principal, interest, fees and penalties
\* and is never negative.
C4_TotalOutstandingNonNegative ==
    /\ total_outstanding(state) = context_total_outstanding(PaymentContext(state))
    /\ total_outstanding(state) >= 0

\* C5: for term, open-term and revolving facilities
\* total_disbursed + available_commitment = original_commitment.
C5_CommitmentConserved ==
    kind \in {"term", "open_term", "revolving"} =>
        state.total_disbursed + state.available_commitment = state.original_commitment

\* C6: disburse(amount) succeeds only when the status before the call is Active or
\* GracePeriod, available_commitment > 0 and amount <= available_commitment; a
\* disburse that fails disburses nothing.
C6_DisburseOnlyWhenActive ==
    [][op' = "disburse" =>
          IF result' = "ok"
          THEN /\ state.status \in {"Active", "GracePeriod"}
               /\ state.available_commitment > 0
               /\ application'.amount <= state.available_commitment
          ELSE /\ state'.total_disbursed = state.total_disbursed
               /\ state'.outstanding_principal = state.outstanding_principal]_vars

\* C7: a revolving draw, or an account transaction that overdraws the overdraft
\* facility, is accepted only while the status is Active; a rejected one records no
\* principal.
C7_DrawOnlyWhenActive ==
    [][(\/ op' = "draw"
        \/ (op' = "account_transaction" /\ application'.amount < 0
            /\ facade.linked_account_balance + application'.amount < 0)) =>
          IF result' = "ok"
          THEN state.status = "Active"
          ELSE state'.outstanding_principal = state.outstanding_principal]_vars

\* C8: after an accepted make_payment or process_scheduled_payment of a facade that
\* pays through the waterfall, total_outstanding = 0 means that the status is
\* Settled and that the operation emitted FacilitySettled.
C8_PaidOffMeansSettled ==
    (/\ kind # "overdraft"
     /\ op \in {"make_payment", "process_scheduled_payment"}
     /\ result = "ok"
     /\ total_outstanding(state) = 0) =>
        (state.status = "Settled" /\ "FacilitySettled" \in Range(events))

\* C9: with the standard waterfall each bucket receives min(remaining, balance) in
\* the order fees, penalties, interest, principal, the balance is decremented by
\* what it received, and a later bucket receives a non-zero amount only when every
\* earlier bucket has been paid down to zero.
C9_StandardWaterfallOrder ==
    [][(op' = "process" /\ result' = "ok") =>
          LET c == PaymentContext(state)
              a == application'
          IN  /\ a.to_fees = Min(a.amount, c.accrued_fees)
              /\ a.to_penalties = Min(a.amount - a.to_fees, c.accrued_penalties)
              /\ a.to_interest =
                     Min(a.amount - a.to_fees - a.to_penalties, c.accrued_interest)
              /\ a.to_principal =
                     Min(a.amount - a.to_fees - a.to_penalties - a.to_interest,
                         c.outstanding_principal)
              /\ state'.accrued_fees = c.accrued_fees - a.to_fees
              /\ state'.accrued_penalties = c.accrued_penalties - a.to_penalties
              /\ state'.accrued_interest = c.accrued_interest - a.to_interest
              /\ state'.outstanding_principal = c.outstanding_principal - a.to_principal
              /\ (a.to_penalties # 0 => state'.accrued_fees = 0)
              /\ (a.to_interest # 0 =>
                     state'.accrued_fees = 0 /\ state'.accrued_penalties = 0)
              /\ (a.to_principal # 0 =>
                     /\ state'.accrued_fees = 0
                     /\ state'.accrued_penalties = 0
                     /\ state'.accrued_interest = 0)]_vars

\* a payment that paid the fees and the penalties in full and part of the interest
C9_Witness ==
    /\ op = "process"
    /\ result = "ok"
    /\ application.to_fees = 50
    /\ application.to_penalties = 25
    /\ application.to_interest = 75
    /\ application.to_principal = 0
    /\ state.accrued_interest = 25
    /\ state.outstanding_principal = 1000

\* the balance before a payment operation: process_scheduled_payment accrues
\* interest before it pays
BalanceBeforePayment(name, s, t) ==
    IF name = "process_scheduled_payment"
    THEN total_outstanding(accrue_interest(s, t).state)
    ELSE total_outstanding(s)

\* C10: for every accepted payment to_fees + to_penalties + to_interest +
\* to_principal + excess is the payment amount, and total_outstanding decreases by
\* the sum of the four applied portions.
C10_PaymentConserved ==
    [][(op' \in WaterfallPayments /\ kind # "overdraft" /\ result' = "ok") =>
          LET a == application'
              applied == a.to_fees + a.to_penalties + a.to_interest + a.to_principal
          IN  /\ applied + a.excess = a.amount
              /\ BalanceBeforePayment(op', state, now) - total_outstanding(state')
                 = applied]_vars

\* an accepted overpayment that paid fees, interest and principal and left an excess
C10_Witness ==
    /\ op = "make_payment"
    /\ result = "ok"
    /\ application.to_fees > 0
    /\ application.to_interest > 0
    /\ application.to_principal > 0
    /\ application.excess > 0

\* the days between the due date of the next unpaid schedule row and the time t
DaysAfterDue(s, t) == NumDays(t - s.next_payment_due)

\* the next schedule row of a loan in repayment is overdue and unpaid: no payment
\* was received on or after its due date, or the only one is the scheduled payment
\* of the row before it, processed by the call that has just returned
ScheduledPaymentUnpaid ==
    /\ state.status \in {"Active", "GracePeriod", "Delinquent"}
    /\ total_outstanding(state) > 0
    /\ state.next_payment_due # None
    /\ now > state.next_payment_due
    /\ \/ state.last_payment_date = None
       \/ state.last_payment_date < state.next_payment_due
       \/ (op = "process_scheduled_payment" /\ result = "ok")

\* C11: when a scheduled payment is unpaid, a daily update made d whole days after
\* its due date sets days_past_due = d and sets the status to GracePeriod if
\* 1 <= d <= grace_days and to Delinquent if d > grace_days.
C11_DailyUpdateSetsDelinquency ==
    [][(/\ op' = "update_daily_status"
        /\ ScheduledPaymentUnpaid
        /\ DaysAfterDue(state, now) >= 1) =>
          /\ state'.days_past_due = DaysAfterDue(state, now)
          /\ state'.status =
                 IF DaysAfterDue(state, now) <= Config(kind).grace_period_days
                 THEN "GracePeriod" ELSE "Delinquent"]_vars

\* how many times an event occurs in a sequence of events
CountOf(event, seq) == Cardinality({i \in DOMAIN seq : seq[i] = event})

\* C12: for each missed payment, the daily update that makes the facility
\* Delinquent adds the configured late fee to accrued_fees once and emits one
\* LateFeeApplied, however many days passed since the last daily update; a daily
\* update of a facility that is already Delinquent adds no late fee.
C12_LateFeeOnce ==
    [][(op' = "update_daily_status" /\ Config(kind).late_fee # None) =>
          /\ (state.status \in {"Active", "GracePeriod"} /\ state'.status = "Delinquent") =>
                 /\ state'.accrued_fees = state.accrued_fees + Config(kind).late_fee
                 /\ CountOf("LateFeeApplied", events') = 1
          /\ state.status = "Delinquent" =>
                 /\ state'.accrued_fees = state.accrued_fees
                 /\ CountOf("LateFeeApplied", events') = 0]_vars

\* C13: when a facility in GracePeriod or Delinquent accepts a payment of at least
\* minimum_payment_due that does not settle it, days_past_due becomes 0 and the
\* status returns to Active.
C13_PaymentResetsDelinquency ==
    [][(/\ op' \in {"make_payment", "process_scheduled_payment"}
        /\ result' = "ok"
        /\ state.status \in {"GracePeriod", "Delinquent"}
        /\ state.minimum_payment_due # None
        /\ application'.amount >= state.minimum_payment_due
        /\ total_outstanding(state') > 0) =>
          /\ state'.days_past_due = 0
          /\ state'.status = "Active"]_vars

\* C14: once a facility is Delinquent, its status does not return to Active unless
\* a payment of at least minimum_payment_due has been accepted since it became
\* Delinquent; checked for the facilities that have not received any payment, whose
\* status can then become Active only in the step that accepts such a payment.
C14_DelinquentStaysUntilPaid ==
    [][(/\ state.status = "Delinquent"
        /\ state.last_payment_date = None
        /\ state'.status = "Active") =>
          /\ op' \in {"make_payment", "process_scheduled_payment"}
          /\ result' = "ok"
          /\ state.minimum_payment_due # None
          /\ application'.amount >= state.minimum_payment_due]_vars

\* C15: on a term loan process_scheduled_payment pays exactly the amount of the
\* next unpaid schedule row and moves the schedule cursor by one per successful
\* payment and not otherwise, and the cursor never exceeds the term.
C15_CursorCountsPayments ==
    [][(kind = "term" /\ op' = "process_scheduled_payment") =>
          /\ facade'.current_payment_number <= TermMonths
          /\ IF result' = "ok"
             THEN /\ facade'.current_payment_number = facade.current_payment_number + 1
                  /\ application'.amount =
                         ScheduledPayment(facade.current_payment_number + 1, 0).payment_amount
             ELSE facade'.current_payment_number = facade.current_payment_number]_vars

(***************************************************************************)
(* The term loan repaid on schedule: approved and fully disbursed by the   *)
(* first due date, every scheduled payment processed on its due date, with *)
(* interest accruals and daily updates in between.                         *)
(***************************************************************************)
ScheduleInit ==
    /\ kind = "term"
    /\ now = 0
    /\ state = NewState(CommitmentAmount, 0, Config("term").origination_fee)
    /\ facade = NewFacade
    /\ events = <<"FacilityOriginated">>
    /\ op = "build"
    /\ result = "ok"
    /\ application = NoApplication
    /\ calls = 0

\* loan.approve()
OnScheduleApprove ==
    /\ state.status = "Originated"
    /\ TermApprove

\* loan.disburse(commitment_amount) after the approval
OnScheduleDisburse ==
    /\ state.status = "Active"
    /\ state.total_disbursed = 0
    /\ Return("disburse", disburse(state, CommitmentAmount), facade,
              [NoApplication EXCEPT !.amount = CommitmentAmount])

\* loan.process_scheduled_payment() on the due date of the next row
OnSchedulePayment ==
    /\ state.total_disbursed = CommitmentAmount
    /\ state.next_payment_due = now
    /\ TermProcessScheduledPayment

\* controller.advance(..) up to the next due date
OnScheduleAdvance ==
    /\ now < (IF state.next_payment_due = None
              THEN ScheduledPayment(1, 0).payment_date ELSE state.next_payment_due)
    /\ AdvanceTime

ScheduleSpec ==
    /\ ScheduleInit
    /\ [][\/ OnScheduleApprove
          \/ OnScheduleDisburse
          \/ OnSchedulePayment
          \/ OnScheduleAdvance
          \/ AccrueInterest
          \/ UpdateDailyStatus]_vars

\* C16: a term loan without balloon that is approved, fully disbursed and has every
\* scheduled payment processed on its due date has total_outstanding = 0 and
\* status Settled after the final payment.
C16_OnScheduleSettles ==
    (/\ op = "process_scheduled_payment"
     /\ result = "ok"
     /\ facade.current_payment_number = TermMonths) =>
        (total_outstanding(state) = 0 /\ state.status = "Settled")

\* C17: on a term loan that has been approved and fully disbursed and nothing
\* else, a make_payment of 5 percent of the commitment (the $500 of the $10,000
\* loan) is accepted, the status stays Active, outstanding_principal is below the
\* amount disbursed and PaymentReceived carries a non-zero principal portion.
C17_QuickStartPayment ==
    [][(/\ kind = "term"
        /\ op' = "make_payment"
        /\ facade.amortization_schedule
        /\ facade.current_payment_number = 0
        /\ state.status = "Active"
        /\ state.outstanding_principal = CommitmentAmount
        /\ state.total_disbursed = CommitmentAmount
        /\ state.last_payment_date = None
        /\ state.accrued_penalties = 0
        /\ application'.amount * 20 = CommitmentAmount) =>
          /\ result' = "ok"
          /\ state'.status = "Active"
          /\ state'.outstanding_principal < CommitmentAmount
          /\ "PaymentReceived" \in Range(events')
          /\ application'.to_principal > 0]_vars

\* the LTV check of the call that has just returned found ltv > liquidation_ltv:
\* the open-term loan checks total_outstanding against the bitcoin collateral after
\* a price update or an accepted payment, Facility::update_collateral checks the
\* principal against the new collateral position
FoundAboveLiquidation ==
    /\ kind = "open_term"
    /\ \/ /\ op' = "update_btc_price" \/ (op' = "make_payment" /\ result' = "ok")
          /\ ~LtvAtMost(total_outstanding(state'), CollateralValue(facade'), LiquidationLtv)
       \/ /\ op' = "update_collateral"
          /\ LtvAbove(state.outstanding_principal, state'.collateral, LiquidationLtv)

\* C18: whenever an LTV check on a collateralized facility finds
\* ltv > liquidation_ltv, the status becomes Liquidating and a LiquidationTriggered
\* event is emitted.
C18_LiquidationTriggered ==
    [][FoundAboveLiquidation =>
          /\ state'.status = "Liquidating"
          /\ "LiquidationTriggered" \in Range(events')]_vars


(***************************************************************************)
(* The LTV monitor (LtvMonitor), a component of its own: each check is     *)
(* given the liability (cvl) and the collateral value of the position.    *)
(* The position of the latest check is kept in state.outstanding_principal *)
(* and state.collateral; last_check = None stands for DateTime::MIN_UTC.   *)
(***************************************************************************)
\* check_frequency of LtvMonitor::new, in ticks
CheckFrequency == 1

\* LtvMonitor::check_ltv: the match on the status of a check that is carried out
MonitorTransition(f, status, t) ==
    CASE status = "Healthy" ->
           IF f.margin_call_active
           THEN [ok |-> TRUE, events |-> <<"MarginCallResolved">>,
                 facade |-> [f EXCEPT !.margin_call_active = FALSE,
                                      !.margin_call_deadline = None]]
           ELSE [ok |-> TRUE, events |-> <<>>, facade |-> f]
      [] status = "Warning" ->
           [ok |-> TRUE, events |-> <<"LtvWarningBreached">>, facade |-> f]
      [] status = "MarginCall" ->
           IF ~f.margin_call_active
           THEN [ok |-> TRUE, events |-> <<"MarginCallRequired">>,
                 facade |-> [f EXCEPT !.margin_call_active = TRUE,
                                      !.margin_call_deadline = t + TicksPerDay]]
           ELSE [ok |-> ~(f.margin_call_deadline # None /\ t > f.margin_call_deadline),
                 events |-> <<>>, facade |-> f]
      [] status = "Liquidation" ->
           [ok |-> TRUE, events |-> <<"LiquidationTriggered">>, facade |-> f]

\* check_ltv without the Healthy arm of the match: a margin call is never resolved
check_ltv_without_resolution(f, cvl, collateral_value, t) ==
    IF f.last_check # None /\ t - f.last_check < CheckFrequency
    THEN [ok |-> collateral_value # 0, events |-> <<>>, facade |-> f]
    ELSE IF collateral_value = 0
    THEN [ok |-> FALSE, events |-> <<>>, facade |-> [f EXCEPT !.last_check = t]]
    ELSE IF LtvStatus(cvl, collateral_value) = "Healthy"
    THEN [ok |-> TRUE, events |-> <<>>, facade |-> [f EXCEPT !.last_check = t]]
    ELSE MonitorTransition([f EXCEPT !.last_check = t],
                           LtvStatus(cvl, collateral_value), t)

\* LtvMonitor::check_ltv: a call before check_frequency has elapsed only classifies
\* (get_current_status); calculate_ltv fails on a collateral value of zero
check_ltv(f, cvl, collateral_value, t) ==
    IF f.last_check # None /\ t - f.last_check < CheckFrequency
    THEN [ok |-> collateral_value # 0, events |-> <<>>, facade |-> f]
    ELSE IF collateral_value = 0
    THEN [ok |-> FALSE, events |-> <<>>, facade |-> [f EXCEPT !.last_check = t]]
    ELSE MonitorTransition([f EXCEPT !.last_check = t],
                           LtvStatus(cvl, collateral_value), t)

\* a check of the monitor on a position (cvl, collateral_value), then take_events
MonitorCheck ==
    /\ kind = "monitor"
    /\ \E cvl \in {500, 620, 700, 800}, collateral_value \in {0, 1000} :
          \E r \in {check_ltv(facade, cvl, collateral_value, now)} :
             Return("check_ltv",
                    [ok |-> r.ok, events |-> r.events,
                     state |-> [state EXCEPT !.outstanding_principal = cvl,
                                             !.collateral = collateral_value]],
                    r.facade, NoApplication)

\* the LTV checks: an open-term loan, or a monitor of its own
LtvInit ==
    /\ kind \in {"open_term", "monitor"}
    /\ now = 0
    /\ state = NewState(CommitmentAmount, 0,
                        IF kind = "open_term" THEN Config(kind).origination_fee ELSE 0)
    /\ facade = NewFacade
    /\ events = IF kind = "open_term" THEN <<"FacilityOriginated">> ELSE <<>>
    /\ op = "build"
    /\ result = "ok"
    /\ application = NoApplication
    /\ calls = 0

LtvSpec == LtvInit /\ [][AdvanceTime \/ OpenTermNext \/ MonitorCheck]_vars

\* an open-term loan after build
OpenTermInit == LtvInit /\ kind = "open_term"

\* an open-term loan that is never paid (test_perpetual_loan_5_years): time passes,
\* interest accrues, the price moves and the daily status update runs
PerpetualSpec ==
    /\ OpenTermInit
    /\ [][\/ AdvanceTime
          \/ UpdateDailyStatus
          \/ OpenTermApprove
          \/ OpenTermDisburse
          \/ OpenTermAccrueInterest
          \/ OpenTermUpdateBtcPrice]_vars


(***************************************************************************)
(* The claims about the margin call.                                       *)
(***************************************************************************)
\* the step is an LTV check that is carried out: a check of the monitor not skipped
\* by check_frequency, or the price update of the open-term loan
LtvCheckCarriedOut ==
    \/ /\ kind = "monitor"
       /\ op' = "check_ltv"
       /\ facade.last_check = None \/ now - facade.last_check >= CheckFrequency
    \/ /\ kind = "open_term"
       /\ op' = "update_btc_price"

\* the classification the check of the step gives the position
ClassifiedAs(status) ==
    /\ kind = "monitor" => state'.collateral # 0
    /\ LtvStatus(total_outstanding(state'),
                 IF kind = "monitor" THEN state'.collateral ELSE CollateralValue(facade'))
          = status

\* C19: when a margin call is active and a later LTV check, of the monitor or of the
\* open-term loan's price update, still classifies the position as MarginCall at a
\* time after the margin-call deadline, the check fails (MarginCallExpired).
C19_MarginCallExpired ==
    [][(/\ LtvCheckCarriedOut
        /\ facade.margin_call_active
        /\ facade.margin_call_deadline # None
        /\ now > facade.margin_call_deadline
        /\ ClassifiedAs("MarginCall")) =>
          result' = "err"]_vars


\* C20 as stated: while a margin call is active, the first LTV check (any call of the
\* monitor's check, any price update or accepted payment of the open-term loan) that
\* classifies the position as Healthy emits MarginCallResolved and leaves no margin
\* call active and no deadline recorded.
C20_ResolvedOnFirstHealthyCheck ==
    [][(/\ \/ kind = "monitor" /\ op' = "check_ltv"
           \/ kind = "open_term" /\ op' \in {"update_btc_price", "make_payment"}
        /\ result' = "ok"
        /\ facade.margin_call_active
        /\ ClassifiedAs("Healthy")) =>
          /\ "MarginCallResolved" \in Range(events')
          /\ ~facade'.margin_call_active
          /\ facade'.margin_call_deadline = None]_vars

\* C20, amended: while a margin call is active, the first LTV check that is carried
\* out (a call of the monitor's check made before check_frequency has elapsed since
\* the last one only classifies) and classifies the position as Healthy emits
\* MarginCallResolved and leaves no margin call active and no deadline recorded;
\* no MarginCallResolved is emitted by any step when no margin call was active.
C20_ResolvedOnCarriedOutCheck ==
    [][/\ (/\ LtvCheckCarriedOut \/ (kind = "open_term" /\ op' = "make_payment")
           /\ result' = "ok"
           /\ facade.margin_call_active
           /\ ClassifiedAs("Healthy")) =>
             /\ "MarginCallResolved" \in Range(events')
             /\ ~facade'.margin_call_active
             /\ facade'.margin_call_deadline = None
       /\ ~facade.margin_call_active => "MarginCallResolved" \notin Range(events')]_vars

\* C20 witness: a check of the monitor has resolved a margin call
C20_Witness ==
    /\ kind = "monitor"
    /\ op = "check_ltv"
    /\ result = "ok"
    /\ facade.last_check = now
    /\ "MarginCallResolved" \in Range(events)
    /\ ~facade.margin_call_active
    /\ facade.margin_call_deadline = None


(***************************************************************************)
(* The claims about the revolving facility.                                *)
(***************************************************************************)
\* C25: on a revolving facility every accepted draw that leaves outstanding_principal
\* above the credit limit leaves it at most 10% of the limit above, charges the
\* configured overlimit fee and emits OverlimitOccurred; a draw that would exceed the
\* limit by more than 10% is rejected with the state unchanged.
C25_OverlimitDraw ==
    [][(kind = "revolving" /\ op' = "draw") =>
          /\ (result' = "ok" /\ state'.outstanding_principal > facade'.credit_limit) =>
                /\ (state'.outstanding_principal - facade'.credit_limit) * 10
                      <= facade'.credit_limit
                /\ state'.accrued_fees = state.accrued_fees + Config(kind).overlimit_fee
                /\ "OverlimitOccurred" \in Range(events')
          /\ (state.outstanding_principal + application'.amount - facade.credit_limit) * 10
                > facade.credit_limit =>
                /\ result' = "err"
                /\ state' = state
                /\ facade' = facade]_vars

\* C26: for a revolving facility available_credit >= 0 and outstanding_principal +
\* available_credit >= credit_limit, with equality whenever outstanding_principal <=
\* credit_limit.
C26_AvailableCredit ==
    kind = "revolving" =>
       /\ facade.available_credit >= 0
       /\ state.outstanding_principal + facade.available_credit >= facade.credit_limit
       /\ state.outstanding_principal <= facade.credit_limit =>
             state.outstanding_principal + facade.available_credit = facade.credit_limit


\* C27: for a HELOC, once the draw period has ended (the recorded draw-period end
\* time has passed, or end_draw_period has been called), every draw is rejected
\* (DrawPeriodEnded) and changes nothing.
C27_DrawPeriodEnded ==
    [][(/\ kind = "heloc"
        /\ op' = "draw"
        /\ \/ ~facade.is_in_draw_period
           \/ facade.draw_period_ends # None /\ now > facade.draw_period_ends) =>
          /\ result' = "err"
          /\ state' = state
          /\ facade' = facade
          /\ events' = <<>>]_vars


trigger_liquidation(s, f, cvl, collateral_value, t) ==
    IF f.liquidation_status # "NotInitiated" THEN Failed(s, <<>>, f)
    ELSE IF f.grace_period_hours > 0
    THEN [ok |-> TRUE, state |-> s,
          events |-> <<"LiquidationPending", "LiquidationTriggered">>,
          facade |-> [f EXCEPT !.liquidation_status = "GracePeriod",
                               !.grace_period_end =
                                   t + (f.grace_period_hours * TicksPerDay) \div 24]]
    ELSE [ok |-> TRUE, state |-> s,
          events |-> <<"CollateralSaleInitiated", "LiquidationTriggered">>,
          facade |-> [f EXCEPT !.liquidation_status = "InProgress"]]

\* check_grace_period with the deadline itself taken as expired
check_grace_period_at_deadline(s, f, t) ==
    IF f.liquidation_status = "GracePeriod" /\ f.grace_period_end # None
       /\ t >= f.grace_period_end
    THEN [ok |-> TRUE, state |-> s, events |-> <<"CollateralSaleInitiated">>,
          facade |-> [f EXCEPT !.liquidation_status = "InProgress"]]
    ELSE [ok |-> TRUE, state |-> s, events |-> <<>>, facade |-> f]

\* LiquidationEngine::check_grace_period
check_grace_period(s, f, t) ==
    IF f.liquidation_status # "GracePeriod" THEN
        [ok |-> TRUE, state |-> s, events |-> <<>>, facade |-> f]
    ELSE IF f.grace_period_end # None /\ t > f.grace_period_end
    THEN [ok |-> TRUE, state |-> s, events |-> <<"CollateralSaleInitiated">>,
          facade |-> [f EXCEPT !.liquidation_status = "InProgress"]]
    ELSE [ok |-> TRUE, state |-> s, events |-> <<>>, facade |-> f]

\* the LiquidationResult of complete_liquidation
LiquidationResult(gross_proceeds, liquidation_costs, cvl) ==
    LET net_proceeds == gross_proceeds - liquidation_costs
        cvl_after == IF net_proceeds >= cvl THEN 0 ELSE cvl - net_proceeds
    IN  [gross_proceeds |-> gross_proceeds,
         liquidation_costs |-> liquidation_costs,
         net_proceeds |-> net_proceeds,
         cvl_before |-> cvl,
         cvl_after |-> cvl_after,
         deficiency |-> IF cvl_after > 0 THEN cvl_after ELSE None,
         surplus |-> IF net_proceeds > cvl THEN net_proceeds - cvl ELSE None]

\* LiquidationEngine::complete_liquidation: the engine is Completed, the facility
\* is not among its arguments
complete_liquidation(s, f, gross_proceeds, cvl) ==
    LET r == LiquidationResult(gross_proceeds,
                               RoundDiv(gross_proceeds * LiquidationCostPct, 100), cvl)
    IN  [ok |-> TRUE, state |-> s,
         events |-> IF r.deficiency # None
                    THEN <<"LiquidationCompleted", "DeficiencyBalance">>
                    ELSE <<"LiquidationCompleted">>,
         facade |-> [f EXCEPT !.liquidation_status = "Completed",
                              !.liquidation_result = r]]

\* execute_market_liquidation, execute_auction_liquidation and
\* execute_partial_liquidation: check_can_liquidate, then complete_liquidation
execute_liquidation(s, f, gross_proceeds, cvl) ==
    IF f.liquidation_status # "InProgress" THEN Failed(s, <<>>, f)
    ELSE complete_liquidation(s, f, gross_proceeds, cvl)

\* a zero collateral value aborts the call: the ltv_ratio of the
\* LiquidationTriggered event divides by it
LiquidationTrigger ==
    /\ kind = "open_term"
    /\ CollateralValue(facade) # 0
    /\ ReturnFacade("trigger_liquidation",
                    trigger_liquidation(state, facade, total_outstanding(state),
                                        CollateralValue(facade), now),
                    NoApplication)

LiquidationCheckGrace ==
    /\ kind = "open_term"
    /\ ReturnFacade("check_grace_period", check_grace_period(state, facade, now),
                    NoApplication)

\* the market sale yields the collateral value less the market discount; the
\* winning bid of an auction and the proceeds of a partial sale are the caller's
LiquidationExecute ==
    /\ kind = "open_term"
    /\ \/ ReturnFacade("execute_market_liquidation",
                       execute_liquidation(state, facade,
                           RoundDiv(CollateralValue(facade) * (100 - MarketDiscountPct),
                                    100),
                           total_outstanding(state)),
                       NoApplication)
       \/ \E winning_bid \in {500, 2000} :
             ReturnFacade("execute_auction_liquidation",
                          execute_liquidation(state, facade, winning_bid,
                                              total_outstanding(state)),
                          NoApplication)
       \/ \E proceeds \in {500, 2000} :
             ReturnFacade("execute_partial_liquidation",
                          execute_liquidation(state, facade, proceeds,
                                              total_outstanding(state)),
                          NoApplication)

\* an open-term loan and its liquidation engine, with the default grace period or,
\* after set_grace_period(0), none
LiquidationSpec ==
    /\ OpenTermInit
    /\ [][\/ AdvanceTime
          \/ OpenTermDisburse
          \/ OpenTermUpdateBtcPrice
          \/ \E hours \in {0, GracePeriodHours} :
                /\ facade.grace_period_hours # hours
                /\ facade' = [facade EXCEPT !.grace_period_hours = hours]
                /\ op' = "set_grace_period"
                /\ result' = "ok"
                /\ events' = <<>>
                /\ application' = NoApplication
                /\ UNCHANGED <<kind, now, state, calls>>
          \/ LiquidationTrigger
          \/ LiquidationCheckGrace
          \/ LiquidationExecute]_vars


(***************************************************************************)
(* The claims about the liquidation engine.                                *)
(***************************************************************************)
\* the step is an accepted or refused execution of the liquidation
LiquidationExecuted ==
    op' \in {"execute_market_liquidation", "execute_auction_liquidation",
             "execute_partial_liquidation"}

\* C22: the status of the liquidation engine only moves forward along
\* NotInitiated -> GracePeriod (with a grace period configured) -> InProgress ->
\* Completed: a trigger is accepted only in NotInitiated, GracePeriod gives way to
\* InProgress only by a check made after the grace deadline, an execution is
\* accepted only in InProgress, and Completed is never left
C22_LiquidationStatusOrder ==
    [][LET before == facade.liquidation_status
           after == facade'.liquidation_status
       IN  /\ before # after =>
                 <<before, after>> \in {<<"NotInitiated", "GracePeriod">>,
                                        <<"NotInitiated", "InProgress">>,
                                        <<"GracePeriod", "InProgress">>,
                                        <<"InProgress", "Completed">>}
           /\ before = "NotInitiated" /\ after # before =>
                 /\ op' = "trigger_liquidation"
                 /\ after = "GracePeriod" <=> facade.grace_period_hours > 0
           /\ op' = "trigger_liquidation" =>
                 (result' = "ok" <=> before = "NotInitiated")
           /\ op' = "trigger_liquidation" /\ result' = "err" => after = before
           /\ before = "GracePeriod" /\ after = "InProgress" =>
                 /\ op' = "check_grace_period"
                 /\ now' > facade.grace_period_end
           /\ LiquidationExecuted =>
                 /\ result' = "ok" <=> before = "InProgress"
                 /\ result' = "ok" => after = "Completed"
                 /\ result' = "err" => after = before
           /\ before = "InProgress" /\ after = "Completed" => LiquidationExecuted
           /\ before = "Completed" => after = "Completed"]_vars

\* C22 witness: a liquidation triggered with a grace period ran to Completed, and
\* an execution asked of the Completed engine was refused
C22_Witness ==
    /\ facade.liquidation_status = "Completed"
    /\ facade.grace_period_end # None
    /\ op = "execute_auction_liquidation"
    /\ result = "err"

apply_proceeds_keeping_costs(proceeds, liquidation_costs, penalties, fees, interest, principal) ==
    LET to_penalties == Min(proceeds, penalties)
        to_fees == Min(proceeds - to_penalties, fees)
        to_interest == Min(proceeds - to_penalties - to_fees, interest)
        to_principal ==
            Min(proceeds - to_penalties - to_fees - to_interest, principal)
    IN  [amount |-> proceeds, to_fees |-> to_fees, to_penalties |-> to_penalties,
         to_interest |-> to_interest, to_principal |-> to_principal,
         excess |-> proceeds - to_penalties - to_fees - to_interest - to_principal]

\* LiquidationEngine::apply_proceeds_waterfall: the PaymentApplication it returns
apply_proceeds_waterfall(proceeds, liquidation_costs, penalties, fees, interest, principal) ==
    LET Applied(remaining, owed) ==
            IF remaining > 0 /\ owed > 0 THEN Min(remaining, owed) ELSE 0
        after_costs ==
            IF proceeds >= liquidation_costs THEN proceeds - liquidation_costs ELSE 0
        to_penalties == Applied(after_costs, penalties)
        after_penalties == after_costs - to_penalties
        to_fees == Applied(after_penalties, fees)
        after_fees == after_penalties - to_fees
        to_interest == Applied(after_fees, interest)
        after_interest == after_fees - to_interest
        to_principal == Applied(after_interest, principal)
    IN  [amount |-> proceeds, to_fees |-> to_fees, to_penalties |-> to_penalties,
         to_interest |-> to_interest, to_principal |-> to_principal,
         excess |-> after_interest - to_principal]

\* a call of apply_proceeds_waterfall with the balances of the facility; its
\* arguments proceeds and liquidation_costs are kept in liquidation_result
ApplyProceeds ==
    \E proceeds \in {0, 30, 60, 150, 500, 1175, 2000}, liquidation_costs \in {0, 40, 100} :
        /\ calls < MaxCalls
        /\ calls' = calls + 1
        /\ application' =
               apply_proceeds_waterfall(proceeds, liquidation_costs,
                                        state.accrued_penalties, state.accrued_fees,
                                        state.accrued_interest,
                                        state.outstanding_principal)
        /\ facade' = [facade EXCEPT
                         !.liquidation_result.gross_proceeds = proceeds,
                         !.liquidation_result.liquidation_costs = liquidation_costs]
        /\ op' = "apply_proceeds_waterfall"
        /\ result' = "ok"
        /\ events' = <<>>
        /\ UNCHANGED <<kind, now, state>>

ProceedsSpec == WaterfallInit /\ [][ApplyProceeds]_vars

\* the proceeds waterfall paid the debt buckets in the order penalties, fees,
\* interest, principal, each up to what is owed, after the liquidation costs
ProceedsInOrder ==
    LET a == application
        costs == facade.liquidation_result.liquidation_costs
    IN  /\ a.to_penalties >= 0 /\ a.to_penalties <= state.accrued_penalties
        /\ a.to_fees >= 0 /\ a.to_fees <= state.accrued_fees
        /\ a.to_interest >= 0 /\ a.to_interest <= state.accrued_interest
        /\ a.to_principal >= 0 /\ a.to_principal <= state.outstanding_principal
        /\ a.excess >= 0
        /\ a.to_penalties + a.to_fees + a.to_interest + a.to_principal + a.excess > 0
               => a.amount > costs
        /\ a.to_fees + a.to_interest + a.to_principal + a.excess > 0
               => a.to_penalties = state.accrued_penalties
        /\ a.to_interest + a.to_principal + a.excess > 0
               => a.to_fees = state.accrued_fees
        /\ a.to_principal + a.excess > 0 => a.to_interest = state.accrued_interest
        /\ a.excess > 0 => a.to_principal = state.outstanding_principal

\* C24: the proceeds waterfall pays the liquidation costs first, then penalties,
\* fees, interest and principal in that order, and for all inputs the proceeds equal
\* the liquidation costs plus the four amounts applied plus the excess
C24_ProceedsConserved ==
    op = "apply_proceeds_waterfall" =>
        /\ ProceedsInOrder
        /\ application.amount =
               facade.liquidation_result.liquidation_costs
               + application.to_penalties + application.to_fees
               + application.to_interest + application.to_principal
               + application.excess

\* C24, amended: the order holds for all inputs, and the proceeds equal the part of
\* the liquidation costs they cover (the costs, or all of the proceeds when these are
\* smaller) plus the four amounts applied plus the excess; proceeds below the costs
\* apply nothing and leave no excess
C24_ProceedsConservedUpToCosts ==
    op = "apply_proceeds_waterfall" =>
        /\ ProceedsInOrder
        /\ application.amount =
               Min(application.amount, facade.liquidation_result.liquidation_costs)
               + application.to_penalties + application.to_fees
               + application.to_interest + application.to_principal
               + application.excess

\* C24 witness: proceeds smaller than the liquidation costs were applied to a
\* facility that owes penalties, fees, interest and principal
C24_Witness ==
    /\ op = "apply_proceeds_waterfall"
    /\ application.amount > 0
    /\ application.amount < facade.liquidation_result.liquidation_costs
    /\ state.accrued_penalties > 0 /\ state.accrued_fees > 0
    /\ state.accrued_interest > 0 /\ state.outstanding_principal > 0
    /\ application.excess = 0


(***************************************************************************)
(* The bitcoin collateral: a MockPriceFeed is fed its prints, then moved   *)
(* into the BitcoinCollateral that is asked whether to liquidate.          *)
(***************************************************************************)
\* MockPriceFeed::set_price: the spot price and the history of prints
set_price(f, price, timestamp) ==
    LET pushed == Append(f.price_history, [t |-> timestamp, price |-> price])
    IN  [f EXCEPT !.spot_price = price,
                  !.price_history =
                      IF Len(pushed) > HistoryLimit
                      THEN SubSeq(pushed, Len(pushed) - HistoryLimit + 1, Len(pushed))
                      ELSE pushed]

\* MockPriceFeed::get_twap: the average of the prints made within duration of the
\* latest print, the spot price without prints
get_twap(f, duration) ==
    IF f.price_history = <<>> THEN f.spot_price
    ELSE LET cutoff == f.price_history[Len(f.price_history)].t - duration
             relevant == SelectSeq(f.price_history, LAMBDA e : e.t >= cutoff)
         IN  IF relevant = <<>> THEN f.spot_price
             ELSE RoundDiv(SumSeq([i \in DOMAIN relevant |-> relevant[i].price]),
                           Len(relevant))

\* should_liquidate deciding on the spot price alone
should_liquidate_on_spot(f, cvl, liquidation_threshold) ==
    LtvAbove(cvl, f.btc_amount * f.spot_price, liquidation_threshold)

\* BitcoinCollateral::should_liquidate: the value it returns
should_liquidate(f, cvl, liquidation_threshold) ==
    IF ~f.flash_crash_protection
    THEN LtvAbove(cvl, f.btc_amount * f.spot_price, liquidation_threshold)
    ELSE /\ LtvAbove(cvl, f.btc_amount * f.spot_price, liquidation_threshold)
         /\ LtvAbove(cvl, f.btc_amount * get_twap(f, f.twap_window),
                     liquidation_threshold)

\* a call on the collateral or its feed that leaves the facade fields f
CollateralCall(name, f, returned, cvl) ==
    /\ calls < MaxCalls
    /\ calls' = calls + 1
    /\ facade' = f
    /\ op' = name
    /\ result' = returned
    /\ events' = <<>>
    /\ application' = [NoApplication EXCEPT !.amount = cvl]
    /\ UNCHANGED <<kind, now, state>>

\* the caller feeds a print, with the timestamp it chooses, before the feed is moved
\* into the collateral
FeedSetPrice ==
    /\ kind = "collateral"
    /\ facade.btc_amount = None
    /\ \E price \in {0, 600, 1000}, timestamp \in {0, 1, 3} :
          CollateralCall("set_price", set_price(facade, price, timestamp), "ok", 0)

\* BitcoinCollateral::new(btc_amount, Box::new(price_feed))
CollateralNew ==
    /\ kind = "collateral"
    /\ facade.btc_amount = None
    /\ \E btc_amount \in {1, 2} :
          CollateralCall("new", [facade EXCEPT !.btc_amount = btc_amount], "ok", 0)

\* BitcoinCollateral::set_flash_crash_protection
CollateralSetProtection ==
    /\ kind = "collateral"
    /\ facade.btc_amount # None
    /\ \E enabled \in BOOLEAN :
          CollateralCall("set_flash_crash_protection",
                         [facade EXCEPT !.flash_crash_protection = enabled], "ok", 0)

\* should_liquidate(cvl, the liquidation threshold of the loan): a spot price or an
\* average of zero aborts the call, which divides the debt by the collateral value
CollateralShouldLiquidate ==
    /\ kind = "collateral"
    /\ facade.btc_amount # None
    /\ facade.spot_price # 0
    /\ facade.flash_crash_protection => get_twap(facade, facade.twap_window) # 0
    /\ \E cvl \in {500, 700} :
          CollateralCall("should_liquidate", [facade EXCEPT !.last_valuation = now],
                         IF should_liquidate(facade, cvl, LiquidationLtv)
                         THEN "true" ELSE "false",
                         cvl)

\* MockPriceFeed::new(spot_price), next to a facility that is not involved
CollateralInit ==
    /\ kind = "collateral"
    /\ now = 0
    /\ state = NewState(CommitmentAmount, 0, 0)
    /\ facade = NewFacade
    /\ events = <<>>
    /\ op = "build"
    /\ result = "ok"
    /\ application = NoApplication
    /\ calls = 0

CollateralSpec ==
    /\ CollateralInit
    /\ [][\/ FeedSetPrice
          \/ CollateralNew
          \/ CollateralSetProtection
          \/ CollateralShouldLiquidate]_vars

(***************************************************************************)
(* The claim about the flash-crash protection.                             *)
(***************************************************************************)
\* the prints of the feed made within the TWAP window of the latest print
PrintsInWindow ==
    {i \in DOMAIN facade.price_history :
        facade.price_history[i].t >=
            facade.price_history[Len(facade.price_history)].t - facade.twap_window}

\* the debt is above threshold percent of the collateral at the average of the
\* prints of the window: debt / (btc * total / count) > threshold / 100
RECURSIVE TotalOf(_)
TotalOf(prints) ==
    IF prints = {} THEN 0
    ELSE LET i == CHOOSE j \in prints : TRUE
         IN  facade.price_history[i].price + TotalOf(prints \ {i})

\* C21: with flash-crash protection enabled, should_liquidate returns true only if
\* the LTV at the spot price and the LTV at the average price of the TWAP window both
\* exceed the liquidation threshold; a low print that leaves the LTV at the average
\* at or below the threshold does not liquidate
C21_FlashCrashProtection ==
    (op = "should_liquidate" /\ facade.flash_crash_protection /\ result = "true") =>
        /\ application.amount * 100 > LiquidationLtv * facade.btc_amount * facade.spot_price
        /\ LET twap == IF facade.price_history = <<>> THEN facade.spot_price
                       ELSE RoundDiv(TotalOf(PrintsInWindow), Cardinality(PrintsInWindow))
           IN  application.amount * 100 > LiquidationLtv * facade.btc_amount * twap

\* C21 witness: after prints at a high price a single low print put the LTV at the
\* spot price above the threshold while the LTV at the average stayed at or below
\* it, and should_liquidate returned false
C21_Witness ==
    /\ op = "should_liquidate"
    /\ facade.flash_crash_protection
    /\ result = "false"
    /\ Len(facade.price_history) >= 3
    /\ application.amount * 100 > LiquidationLtv * facade.btc_amount * facade.spot_price
    /\ application.amount * 100 <=
           LiquidationLtv * facade.btc_amount * get_twap(facade, facade.twap_window)


(***************************************************************************)
(* The claims about events and timestamps.                                 *)
(***************************************************************************)
\* C31: every operation that changes the status of the facility appends a
\* StatusChanged event
C31_StatusChangedEmitted ==
    [][state'.status # state.status =>
          "StatusChanged" \in {events'[i] : i \in DOMAIN events'}]_vars


(***************************************************************************)
(* The claims about the other waterfalls and the overpayment handler.      *)
(***************************************************************************)
\* C32: the principal-only waterfall refuses a payment whenever fees, penalties or
\* interest are owed, and leaves all balances unchanged
C32_PrincipalOnlyRefuses ==
    [][(/\ op' = "process"
        /\ \/ state.accrued_fees > 0
           \/ state.accrued_penalties > 0
           \/ state.accrued_interest > 0) =>
          /\ result' = "err"
          /\ state' = state]_vars


(***************************************************************************)
(* The overpayment handler, applied to the balances of the facility under  *)
(* test and to loan parameters of the caller.                              *)
(***************************************************************************)
\* the loop of calculate_term_for_emi: the months counted from `months` on, while a
\* balance remains and the cap is not reached
RECURSIVE TermLoop(_, _, _)
TermLoop(remaining, emi, months) ==
    IF ~(remaining > 0 /\ months < TermCap) THEN months
    ELSE IF emi * MonthlyDen - remaining * MonthlyNum <= 0 THEN months
    ELSE TermLoop(Max(RoundDiv(remaining * MonthlyDen
                               - (emi * MonthlyDen - remaining * MonthlyNum),
                               MonthlyDen), 0),
                  emi, months + 1)

\* overpayment::calculate_term_for_emi (the monthly rate is not zero): a u32
calculate_term_for_emi(principal, emi) ==
    IF emi <= 0 \/ principal <= 0 THEN 0
    ELSE IF emi * MonthlyDen <= principal * MonthlyNum THEN 0
    ELSE TermLoop(principal, emi, 0)

\* OverpaymentHandler::handle: the principal of the context after the call and the
\* OverpaymentResult it returns; every strategy returns Ok
handle(strategy, overpayment, c, loan_params) ==
    LET reduced == c.outstanding_principal - overpayment
        new_emi == calculate_emi_amount(reduced, loan_params.remaining_months)
        new_term == calculate_term_for_emi(reduced, loan_params.emi_amount)
        base == [strategy |-> strategy, amount_applied |-> overpayment,
                 old_principal |-> c.outstanding_principal, new_principal |-> reduced,
                 old_emi |-> None, new_emi |-> None,
                 old_term_months |-> None, new_term_months |-> None, savings |-> 0]
    IN  CASE strategy = "ReducePrincipal" ->
               [principal |-> reduced, events |-> <<"OverpaymentReceived">>,
                result |-> [base EXCEPT !.savings = RoundDiv(overpayment, 10)]]
          [] strategy = "ReduceEmi" ->
               [principal |-> reduced, events |-> <<"OverpaymentReceived">>,
                result |-> [base EXCEPT
                               !.old_emi = loan_params.emi_amount,
                               !.new_emi = new_emi,
                               !.old_term_months = loan_params.remaining_months,
                               !.new_term_months = loan_params.remaining_months,
                               !.savings = (loan_params.emi_amount - new_emi)
                                           * loan_params.remaining_months]]
          [] strategy = "ReduceTerm" ->
               [principal |-> reduced, events |-> <<"OverpaymentReceived">>,
                result |-> [base EXCEPT
                               !.old_emi = loan_params.emi_amount,
                               !.new_emi = loan_params.emi_amount,
                               !.old_term_months = loan_params.remaining_months,
                               !.new_term_months = new_term,
                               !.savings = loan_params.emi_amount
                                           * Max(loan_params.remaining_months - new_term,
                                                 0)]]
          [] strategy = "ReduceLimit" ->
               [principal |-> c.outstanding_principal,
                events |-> <<"CreditLimitChanged">>,
                result |-> [base EXCEPT !.new_principal = c.outstanding_principal]]

\* OverpaymentHandler::new(id, strategy).handle(overpayment, context, loan_params, ..)
\* on the balances of the facility; the loan parameters are the caller's
OverpaymentHandle ==
    \E strategy \in {"ReducePrincipal", "ReduceEmi", "ReduceTerm", "ReduceLimit"},
       overpayment \in {0, 30, 500, 1000, 2000}, emi_amount \in {5, 11, 340} :
        LET loan_params == [remaining_months |-> TermMonths, emi_amount |-> emi_amount]
            r == handle(strategy, overpayment, PaymentContext(state), loan_params)
        IN  /\ calls < MaxCalls
            /\ calls' = calls + 1
            /\ state' = [state EXCEPT !.outstanding_principal = r.principal]
            /\ facade' = [facade EXCEPT !.loan_params = loan_params,
                                        !.overpayment_result = r.result]
            /\ events' = r.events
            /\ op' = "handle"
            /\ result' = "ok"
            /\ application' = [NoApplication EXCEPT !.amount = overpayment]
            /\ UNCHANGED <<kind, now>>

OverpaymentSpec == WaterfallInit /\ [][OverpaymentHandle]_vars

\* C33: after an overpayment of x handled with the ReducePrincipal strategy the new
\* principal is max(old principal - x, 0), and the schedule (EMI and remaining term)
\* is unchanged
C33_ReducePrincipal ==
    [][(op' = "handle" /\ facade'.overpayment_result.strategy = "ReducePrincipal") =>
          LET r == facade'.overpayment_result
          IN  /\ state'.outstanding_principal =
                     Max(state.outstanding_principal - r.amount_applied, 0)
              /\ r.new_principal = state'.outstanding_principal
              /\ r.old_emi = r.new_emi
              /\ r.old_term_months = r.new_term_months
              /\ state'.minimum_payment_due = state.minimum_payment_due
              /\ state'.next_payment_due = state.next_payment_due]_vars

\* C35: recomputing the remaining term after a prepayment ends within the capped
\* number of iterations, and a payment that does not cover the interest of the
\* period is answered with an error instead of a term
C35_TermRecomputed ==
    [][(op' = "handle" /\ facade'.overpayment_result.strategy = "ReduceTerm") =>
          LET r == facade'.overpayment_result
              emi == facade'.loan_params.emi_amount
          IN  /\ r.new_term_months <= TermCap
              /\ (r.new_principal > 0
                  /\ emi * MonthlyDen <= r.new_principal * MonthlyNum) =>
                     result' = "err"]_vars


\* C34: every timestamp recorded in the facility state is a reading of the injected
\* time source (a time between the build and now), never of the host clock
C34_InjectedTimeOnly ==
    \A field \in {"activation_date", "last_interest_accrual", "last_payment_date"} :
        state[field] # None => state[field] \in 0..now


(***************************************************************************)
(* The event buffer of the facility and its drain.                         *)
(***************************************************************************)
\* take_events that hands the events out and keeps them in the buffer
take_events_keeping_buffer(f) == [f EXCEPT !.taken_events = f.pending_events]

\* Facility::take_events, EventStore::take_events: std::mem::take of the buffer
take_events(f) ==
    [f EXCEPT !.taken_events = f.pending_events, !.pending_events = <<>>]

TakeEvents ==
    /\ calls < MaxCalls
    /\ calls' = calls + 1
    /\ facade' = take_events(facade)
    /\ events' = <<>>
    /\ op' = "take_events"
    /\ result' = "ok"
    /\ application' = NoApplication
    /\ UNCHANGED <<kind, now, state>>

\* a term loan after build whose event buffer is kept: it holds FacilityOriginated
EventInit ==
    /\ kind = "term"
    /\ now = 0
    /\ state = NewState(CommitmentAmount, 0, Config(kind).origination_fee)
    /\ facade = [NewFacade EXCEPT !.events_observed = TRUE,
                                  !.pending_events = <<"FacilityOriginated">>]
    /\ events = <<"FacilityOriginated">>
    /\ op = "build"
    /\ result = "ok"
    /\ application = NoApplication
    /\ calls = 0

EventSpec ==
    EventInit /\ [][AdvanceTime \/ TermNext \/ TakeEvents]_vars

\* C36: take_events returns the events emitted since the previous drain in the
\* order of their emission and leaves the buffer empty, so that a second drain
\* right after it returns nothing; every other operation only appends the events
\* it emits to the end of the buffer
C36_DrainInOrder ==
    [][/\ op' = "take_events" =>
             /\ facade'.taken_events = facade.pending_events
             /\ facade'.pending_events = <<>>
             /\ op = "take_events" => facade'.taken_events = <<>>
       /\ op' # "take_events" =>
             /\ facade'.pending_events = facade.pending_events \o events'
             /\ facade'.taken_events = facade.taken_events]_vars

\* C36 witness: a drain returned the events of three operations in the order of
\* their emission
C36_Witness ==
    /\ op = "take_events"
    /\ facade.pending_events = <<>>
    /\ Len(facade.taken_events) >= 3
    /\ facade.taken_events[1] = "FacilityOriginated"
    /\ facade.taken_events[Len(facade.taken_events)] = "PaymentReceived"


(***************************************************************************)
(* The claims about interest accrual and the daily status update.          *)
(***************************************************************************)
\* C37: interest accrues only over days on which principal was outstanding: an
\* accrual made at the instant of the first disbursement, however long after the
\* origination, charges nothing
C37_NoInterestBeforeDisbursement ==
    [][(/\ op = "disburse" /\ result = "ok"
        /\ application.amount > 0
        /\ state.total_disbursed = application.amount
        /\ op' = "accrue_interest") =>
          state'.accrued_interest = state.accrued_interest]_vars


\* C38: a daily status update run a second time at the same instant leaves the
\* balances, the status and the days past due as the first run left them
C38_DailyUpdateIdempotent ==
    [][(/\ op = "update_daily_status" /\ result = "ok"
        /\ op' = "update_daily_status" /\ now' = now) =>
          /\ state'.accrued_penalties = state.accrued_penalties
          /\ state'.accrued_fees = state.accrued_fees
          /\ state'.accrued_interest = state.accrued_interest
          /\ state'.outstanding_principal = state.outstanding_principal
          /\ state'.status = state.status
          /\ state'.days_past_due = state.days_past_due]_vars


\* C39: the interest accrued over an interval does not depend on how the interval is
\* split into accrue_interest calls; in particular an accrue_interest call repeated at
\* the instant of the previous one accrues nothing
C39_AccrualSplitIndependent ==
    [][(/\ op = "accrue_interest" /\ result = "ok"
        /\ op' = "accrue_interest" /\ now' = now) =>
          state'.accrued_interest = state.accrued_interest]_vars


\* values of the vehicle handed to Facility::update_collateral of an auto loan
VehicleValues == {500, 1500}

\* TermLoan::originate of an auto loan
AutoLoanApprove ==
    /\ kind = "auto_loan"
    /\ ReturnFacade("approve", TermLoan_originate(state, facade, now), NoApplication)

\* TermLoan::disburse of an auto loan
AutoLoanDisburse ==
    /\ kind = "auto_loan"
    /\ \E amount \in DisburseAmounts :
          /\ WithinCaps(state, amount)
          /\ Return("disburse", disburse(state, amount), facade,
                    [NoApplication EXCEPT !.amount = amount])

\* Facility::update_collateral of an auto loan, reached through facility_mut()
AutoLoanUpdateCollateral ==
    /\ kind = "auto_loan"
    /\ \E value \in VehicleValues :
          Return("update_collateral", update_collateral(state, value, Config(kind)),
                 facade, NoApplication)

\* a term loan built with a vehicle value: TermLoanBuilder::build_with_time infers
\* the auto loan
AutoLoanInit ==
    /\ kind = "auto_loan"
    /\ now = 0
    /\ state = NewState(CommitmentAmount, 0, Config(kind).origination_fee)
    /\ facade = NewFacade
    /\ events = <<"FacilityOriginated">>
    /\ op = "build"
    /\ result = "ok"
    /\ application = NoApplication
    /\ calls = 0

AutoLoanSpec ==
    AutoLoanInit /\ [][\/ AdvanceTime
                       \/ UpdateDailyStatus
                       \/ AutoLoanApprove
                       \/ AutoLoanDisburse
                       \/ AutoLoanUpdateCollateral]_vars

\* C40: a daily status update never changes the status of a facility that is
\* Liquidating, Liquidated or Default
C40_NoDriftOutsideDelinquency ==
    [][(/\ op' = "update_daily_status"
        /\ state.status \in {"Liquidating", "Liquidated", "Default"}) =>
          state'.status = state.status]_vars

=============================================================================
